---- MODULE Spec2Model ----
(***************************************************************************)
(* A model of the sat-scheduler repository: the interval algebra of        *)
(* satscheduler/utils/dateutils.py, the access report of                   *)
(* satscheduler/scheduler/reporting.py, the AOI scoring of                 *)
(* satscheduler/scheduler/score.py and the batched pushbroom scheduler of  *)
(* satscheduler/scheduler/pushbroom.py, scheduler.py and solver.py.        *)
(*                                                                         *)
(* Dates are integers (ticks).  A DateInterval is a record [start, stop];  *)
(* a DateIntervalList is its flattened tuple of dates                      *)
(* <<start1, stop1, start2, stop2, ...>>, as the class stores it.          *)
(***************************************************************************)
EXTENDS Integers, Sequences, FiniteSets, TLC

VARIABLES
    algA, algB, algOp, algOut,          \* interval algebra: operands, last operation, its result
    scoreIn, scoreOut, scoreRuns,       \* scoring: input AOIs, ordered output, calls made
    report,                             \* the access report: the sequence of its rows
    pc,                                 \* execute: "start", "batches", "done" or "crashed" ("idle": not run)
    config, preprocessed,               \* the configuration and the preprocessing results of the run
    scored_aois, batch_size, batch_start,
    payload_intervals, duration_limit,  \* per key: committed intervals, rev budgets
    solver_aois,                        \* per key: the class attribute BatchData.solver_aois
    last,                               \* per key: the latest batch that had a solver for the key
    schedules,
    ovSelf, ovOther, ovOut,             \* DateInterval.overlaps: receiver, argument, flags and result
    diDates, dindex, diLast,            \* a DateIndexed: its constructor's dates, its items, the last call
    schedule, scOut,                    \* a Schedule object and the last method call made on it
    aoiEvents, builder, aoiOut,         \* an AoiHandler: the events delivered, its SafeListBuilder, its result
    sunHandler, sunG, sunOut,           \* the sun elevation handler, the sign of the detector's g, the enabled list
    ppAois, ppHandlers, ppOut,          \* a Preprocessor call: its AOIs, their handlers, its outcome
    rnPre, rnThreads, rnMain, rnOut     \* run_preprocessing: the preprocessors, the worker threads, the caller

algVars == <<algA, algB, algOp, algOut>>
scoreVars == <<scoreIn, scoreOut, scoreRuns>>
repVars == <<report>>
schedVars == <<pc, config, preprocessed, scored_aois, batch_size, batch_start, payload_intervals,
               duration_limit, solver_aois, last, schedules>>
ovVars == <<ovSelf, ovOther, ovOut>>
diVars == <<diDates, dindex, diLast>>
scVars == <<schedule, scOut>>
aoiVars == <<aoiEvents, builder, aoiOut>>
sunVars == <<sunHandler, sunG, sunOut>>
ppVars == <<ppAois, ppHandlers, ppOut>>
rnVars == <<rnPre, rnThreads, rnMain, rnOut>>
unitVars == <<ovVars, diVars, scVars, aoiVars, sunVars, ppVars, rnVars>>
\* What a machine of one of these groups leaves alone.
ovRest == <<algVars, scoreVars, repVars, schedVars, diVars, scVars, aoiVars, sunVars, ppVars, rnVars>>
diRest == <<algVars, scoreVars, repVars, schedVars, ovVars, scVars, aoiVars, sunVars, ppVars, rnVars>>
scRest == <<algVars, scoreVars, repVars, schedVars, ovVars, diVars, aoiVars, sunVars, ppVars, rnVars>>
aoiRest == <<algVars, scoreVars, repVars, schedVars, ovVars, diVars, scVars, sunVars, ppVars, rnVars>>
sunRest == <<algVars, scoreVars, repVars, schedVars, ovVars, diVars, scVars, aoiVars, ppVars, rnVars>>
ppRest == <<algVars, scoreVars, repVars, schedVars, ovVars, diVars, scVars, aoiVars, sunVars, rnVars>>
rnRest == <<algVars, scoreVars, repVars, schedVars, ovVars, diVars, scVars, aoiVars, sunVars, ppVars>>
vars == <<algA, algB, algOp, algOut, scoreIn, scoreOut, scoreRuns, report, pc, config, preprocessed,
          scored_aois, batch_size, batch_start, payload_intervals, duration_limit, solver_aois,
          last, schedules, unitVars>>

(***************************************************************************)
(* Bounds of the model.                                                    *)
(***************************************************************************)
\* An AoiHandler receives events at the dates 1..(EvMaxT - 1) of the horizon [0, EvMaxT].
EvMaxT == 6

\* The sun elevation detector reports crossings at the dates 1..(SunMaxT - 1) of the
\* horizon [0, SunMaxT].
SunMaxT == 5

\* A Preprocessor has PpNumAois AOIs and propagates over the horizon [0, PpMaxT].
PpNumAois == 2
PpMaxT == 4

\* run_preprocessing is given at most RnNum preprocessors.
RnNum == 3

\* The horizon of the batch with one AOI and a single rev is [0, DcMaxT].
DcMaxT == 8
\* A Schedule object holds at most ScMaxActs activities, over the dates 0..ScMaxDate.
ScMaxDate == 2
ScMaxActs == 2
\* A DateIndexed is built from dates up to DiMaxDate and holds values 1..DiMaxVal.
DiMaxDate == 2
DiMaxVal == 2
\* Dates of the interval-algebra inputs range over 0..MaxDate.
MaxDate == 4
\* An interval-algebra input is built from at most MaxIvls intervals.
MaxIvls == 2
\* Where one operand is the empty list, the other is built from at most WideMaxIvls
\* intervals over the dates 0..WideMaxDate (room for three separate intervals).
WideMaxDate == 5
WideMaxIvls == 3
\* score_and_sort_aois is given at most ScoreMaxAois AOIs, with ids in 1..ScoreMaxId
\* and scores in -1..ScoreMax.
ScoreMaxAois == 3
ScoreMaxId == 2
ScoreMax == 2
\* The access dates of the AOIs a report is made from range over 0..RepMaxT.
RepMaxT == 2
\* The horizon of a scheduling run is [0, MaxT]; it schedules at most NumAois AOIs.
MaxT == 6
\* An access interval of a scheduling run is at most MaxAccess ticks long.
MaxAccess == 2
NumAois == 2
\* Duty cycles are the fractions 0/DutyDen .. DutyDen/DutyDen.
DutyDen == 2
\* A full rev lasts RevPeriod ticks.
RevPeriod == 2

(***************************************************************************)
(* utils/dateutils.py: DateInterval                                        *)
(***************************************************************************)
\* Python's None, where an interval is expected.
None == [start |-> -1, stop |-> -1]

\* AbsoluteDate.compareTo
compareTo(a, b) == IF a < b THEN -1 ELSE IF a = b THEN 0 ELSE 1

\* DateInterval.__init__: start and stop are swapped when start > stop.
DateInterval(start, stop) ==
    IF compareTo(start, stop) > 0
    THEN [start |-> stop, stop |-> start]
    ELSE [start |-> start, stop |-> stop]

\* DateInterval.overlaps
overlaps(self, other, startInclusive, stopInclusive) ==
    LET v0 == IF startInclusive THEN 0 ELSE -1
        v1 == IF stopInclusive THEN 0 ELSE 1
    IN  IF other = None THEN FALSE
        ELSE /\ compareTo(self.start, other.stop) <= v0
             /\ compareTo(self.stop, other.start) >= v1

\* DateInterval.union: earliest start to latest stop.
ivl_union(self, other) ==
    LET t0 == IF compareTo(self.start, other.start) <= 0 THEN self.start ELSE other.start
        t1 == IF compareTo(self.stop, other.stop) >= 0 THEN self.stop ELSE other.stop
    IN  DateInterval(t0, t1)

\* DateInterval.intersect: the common part, or None.
intersect(self, other) ==
    LET t0 == IF compareTo(self.start, other.start) >= 0 THEN self.start ELSE other.start
        t1 == IF compareTo(self.stop, other.stop) <= 0 THEN self.stop ELSE other.stop
    IN  IF compareTo(t0, t1) < 0 THEN DateInterval(t0, t1) ELSE None

\* A variant of __lt__ that compares the starts only and counts equal starts as less.
ivl_lt_mut(self, other) ==
    IF other = None THEN FALSE
    ELSE compareTo(self.start, other.start) <= 0

\* DateInterval.__lt__: lexicographic on (start, stop).
ivl_lt(self, other) ==
    IF other = None THEN FALSE
    ELSE LET rv == compareTo(self.start, other.start)
         IN  IF rv = 0 THEN compareTo(self.stop, other.stop) < 0 ELSE rv < 0

\* _contained_in_date
contained_in_date(date, start, stop, startInclusive, stopInclusive) ==
    LET v0 == IF startInclusive THEN 0 ELSE -1
        v1 == IF stopInclusive THEN 0 ELSE 1
    IN  compareTo(start, date) <= v0 /\ compareTo(stop, date) >= v1

(***************************************************************************)
(* utils/dateutils.py: DateIntervalList                                    *)
(***************************************************************************)
\* list.pop(i), i counted from 1.
SeqPop(s, i) == [k \in 1..(Len(s) - 1) |-> IF k < i THEN s[k] ELSE s[k + 1]]

\* list.sort() of a list of intervals: a stable insertion sort driven by __lt__.
RECURSIVE SortInsert(_, _)
SortInsert(sorted, x) ==
    IF sorted = <<>> THEN <<x>>
    ELSE IF ivl_lt(x, sorted[Len(sorted)])
         THEN Append(SortInsert(SubSeq(sorted, 1, Len(sorted) - 1), x), sorted[Len(sorted)])
         ELSE Append(sorted, x)

RECURSIVE sort_intervals(_)
sort_intervals(s) ==
    IF s = <<>> THEN <<>>
    ELSE SortInsert(sort_intervals(SubSeq(s, 1, Len(s) - 1)), s[Len(s)])

\* The merge loop of DateIntervalList._reduce; i is the 1-based position of combined[i].
RECURSIVE reduce_loop(_, _)
reduce_loop(combined, i) ==
    IF i > Len(combined) THEN combined
    ELSE LET j == i - 1
         IN  IF overlaps(combined[i], combined[j], TRUE, TRUE)
             THEN reduce_loop(SeqPop([combined EXCEPT ![j] = ivl_union(combined[j], combined[i])], i), i)
             ELSE reduce_loop(combined, i + 1)

\* DateIntervalList._flatten: the dates of the intervals, in the order given.
RECURSIVE flatten(_)
flatten(intervals) ==
    IF intervals = <<>> THEN <<>>
    ELSE <<intervals[1].start, intervals[1].stop>> \o flatten(Tail(intervals))

\* DateIntervalList._reduce: sort, merge overlapping or touching intervals, flatten.
reduce(intervals) == flatten(reduce_loop(sort_intervals(intervals), 2))

\* DateIntervalList(intervals=..., reduce_input=...): an empty iterable is falsy.
DateIntervalList(intervals, reduce_input) ==
    IF intervals = <<>> THEN <<>>
    ELSE IF reduce_input THEN reduce(intervals) ELSE flatten(intervals)

\* DateIntervalList.__len__
dil_len(l) == Len(l) \div 2

\* DateIntervalList.__getitem__, idx counted from 0 as in the code.
dil_get(l, idx) == DateInterval(l[idx * 2 + 1], l[idx * 2 + 2])

\* DateIntervalList.__iter__: the list's intervals in order.
dil_iter(l) == [k \in 1..dil_len(l) |-> dil_get(l, k - 1)]

(***************************************************************************)
(* utils/dateutils.py: IntervalListOperations.  An operation that raises    *)
(* returns [raised |-> TRUE]; otherwise [raised |-> FALSE, dates |-> list]. *)
(***************************************************************************)
Ok(dates) == [raised |-> FALSE, dates |-> dates]
IndexError == [raised |-> TRUE, dates |-> <<>>]

\* DateIntervalList.span: dates[0] to dates[-1]; IndexError on an empty list.
span(l) == IF l = <<>> THEN None ELSE DateInterval(l[1], l[Len(l)])

\* IntervalListOperations.union
list_union(list1, list2) == DateIntervalList(dil_iter(list1) \o dil_iter(list2), TRUE)

\* The two-pointer loop of IntervalListOperations.intersection (i, j counted from 0).
RECURSIVE intersection_loop(_, _, _, _, _)
intersection_loop(list1, list2, i, j, results) ==
    IF ~(i < dil_len(list1) /\ j < dil_len(list2)) THEN results
    ELSE LET l1 == dil_get(list1, i)
             l2 == dil_get(list2, j)
             inter == intersect(l1, l2)
             res == IF inter # None THEN Append(results, inter) ELSE results
         IN  IF ivl_lt(l1, l2)
             THEN intersection_loop(list1, list2, i + 1, j, res)
             ELSE intersection_loop(list1, list2, i, j + 1, res)

\* IntervalListOperations.intersection
list_intersection(list1, list2) ==
    DateIntervalList(intersection_loop(list1, list2, 0, 0, <<>>), FALSE)

\* The date filter of IntervalListOperations.compliment.
RECURSIVE filter_dates(_, _)
filter_dates(dates, sp) ==
    IF dates = <<>> THEN <<>>
    ELSE IF contained_in_date(dates[1], sp.start, sp.stop, TRUE, TRUE)
         THEN <<dates[1]>> \o filter_dates(Tail(dates), sp)
         ELSE filter_dates(Tail(dates), sp)

\* IntervalListOperations.compliment with an explicit span.
compliment(l, sp) ==
    LET d0 == <<sp.start>> \o filter_dates(l, sp) \o <<sp.stop>>
        d1 == IF d0[1] = d0[2] THEN SubSeq(d0, 3, Len(d0)) ELSE d0
    IN  IF d1 # <<>> /\ Len(d1) < 2 THEN IndexError      \* dates[-2] of a one-element list
        ELSE LET d2 == IF d1 # <<>> /\ d1[Len(d1)] = d1[Len(d1) - 1]
                       THEN SubSeq(d1, 1, Len(d1) - 2) ELSE d1
                 d3 == IF Len(d2) % 2 # 0 THEN SubSeq(d2, 1, Len(d2) - 1) ELSE d2
             IN  Ok(d3)

\* IntervalListOperations.subtract
list_subtract(list1, list2) ==
    LET holes == list_intersection(list1, list2)
    IN  IF list1 = <<>> THEN IndexError                  \* list1.span of an empty list
        ELSE LET c == compliment(holes, span(list1))
             IN  IF c.raised THEN IndexError
                 ELSE Ok(list_intersection(list1, c.dates))

(***************************************************************************)
(* scheduler/core.py: Result                                               *)
(***************************************************************************)
SCHEDULED == 0
ALREADY_SCHEDULED == 1
NOT_DUE == 20
EXCEEDED_PAYLOAD_DUTY_CYCLE == 30
SOLVER_INFEASIBLE_SOLUTION == 190
FAILED_QUALITY == 200
FAILED_GEOMETRY == 210
FAILED_SUN_GEOMETRY == 220
NO_ACCESS == 299
NO_DATA == 999

Result == {SCHEDULED, ALREADY_SCHEDULED, NOT_DUE, EXCEEDED_PAYLOAD_DUTY_CYCLE,
           SOLVER_INFEASIBLE_SOLUTION, FAILED_QUALITY, FAILED_GEOMETRY,
           FAILED_SUN_GEOMETRY, NO_ACCESS, NO_DATA}

(***************************************************************************)
(* scheduler/reporting.py.  A report is the sequence of its rows; a row is *)
(* [aoi_id, satellite_id, sensor_id, start, stop, result] (result_str is   *)
(* the name of result, and the columns no mask reads are left out).        *)
(* A PreprocessedAoi is [id, score, sat, sensor, intervals]: the id of its *)
(* AOI, the value its score function returns, the ids of its satellite and *)
(* sensor, and its access intervals.                                       *)
(***************************************************************************)
\* The start and stop of a row made for an AOI with no access (None, NaT in the frame).
NaT == None.start

\* Python's None or "" where an id is expected: the value `if satellite_id:` skips.
NoId == ""

\* pandas comparisons of date columns: a comparison with NaT is False.
date_eq(a, b) == a # NaT /\ b # NaT /\ a = b
date_le(a, b) == a # NaT /\ b # NaT /\ a <= b

\* The rows init_access_report appends for one PreprocessedAoi.
paoi_rows(paoi) ==
    IF dil_len(paoi.intervals) = 0
    THEN <<[aoi_id |-> paoi.id, satellite_id |-> paoi.sat, sensor_id |-> paoi.sensor,
            start |-> NaT, stop |-> NaT, result |-> NO_ACCESS]>>
    ELSE [k \in 1..dil_len(paoi.intervals) |->
            [aoi_id |-> paoi.id, satellite_id |-> paoi.sat, sensor_id |-> paoi.sensor,
             start |-> dil_get(paoi.intervals, k - 1).start,
             stop |-> dil_get(paoi.intervals, k - 1).stop, result |-> NO_DATA]]

RECURSIVE init_access_report(_)
init_access_report(aois) ==
    IF aois = <<>> THEN <<>>
    ELSE init_access_report(SubSeq(aois, 1, Len(aois) - 1)) \o paoi_rows(aois[Len(aois)])

\* Mutant of rr_result_mask: the result comparison is dropped.
rr_result_mask_mut(row, result, overwrite) == TRUE

\* record_result: `if not overwrite: mask = mask & (report["result"] > result)`.
rr_result_mask(row, result, overwrite) == overwrite \/ row.result > result

\* record_result: the mask of one row.
rr_mask(row, aoi_id, result, satellite_id, sensor_id, start, stop, ivl, overwrite, interval_overlap) ==
    /\ row.aoi_id = aoi_id
    /\ rr_result_mask(row, result, overwrite)
    /\ satellite_id # NoId => row.satellite_id = satellite_id
    /\ sensor_id # NoId => row.sensor_id = sensor_id
    /\ start # NaT => date_eq(row.start, start)
    /\ stop # NaT => date_eq(row.stop, stop)
    /\ ivl # None =>
          IF interval_overlap
          THEN date_le(row.start, ivl.stop) /\ date_le(ivl.start, row.stop)
          ELSE date_eq(row.start, ivl.start) /\ date_eq(row.stop, ivl.stop)

record_result(rep, aoi_id, result, satellite_id, sensor_id, start, stop, ivl, overwrite, interval_overlap) ==
    [i \in 1..Len(rep) |->
        IF rr_mask(rep[i], aoi_id, result, satellite_id, sensor_id, start, stop, ivl,
                   overwrite, interval_overlap)
        THEN [rep[i] EXCEPT !.result = result]
        ELSE rep[i]]

\* record_bonusing: mask is computed once from the report as it is at the call, then
\* every interval marks the masked rows it touches.
record_bonusing(rep, satellite_id, intervals, sensor_id) ==
    [i \in 1..Len(rep) |->
        IF /\ rep[i].satellite_id = satellite_id
           /\ rep[i].result > ALREADY_SCHEDULED
           /\ sensor_id # NoId => rep[i].sensor_id = sensor_id
           /\ \E k \in 1..dil_len(intervals) :
                 /\ date_le(rep[i].start, dil_get(intervals, k - 1).stop)
                 /\ date_le(dil_get(intervals, k - 1).start, rep[i].stop)
        THEN [rep[i] EXCEPT !.result = ALREADY_SCHEDULED]
        ELSE rep[i]]

(***************************************************************************)
(* utils/core.py: DateIndexed.  The collection is the sorted sequence of   *)
(* its items [date, has, val]: the transition date and the one entry the   *)
(* scheduler keeps in the item's dict ("duty_cycle" in the limits, "dur" in *)
(* the totals), has = FALSE while the dict is empty.  Lookup dates are     *)
(* given doubled, so that the midpoint of two dates is a whole number.     *)
(***************************************************************************)
\* dt.datetime.fromtimestamp(0.0): earlier than every date of a run.
Epoch == -1

\* sorted(...) of a set of whole numbers.
RECURSIVE SortedSeq(_)
SortedSeq(S) ==
    IF S = {} THEN <<>>
    ELSE LET m == CHOOSE x \in S : \A y \in S : x <= y
         IN  <<m>> \o SortedSeq(S \ {m})

\* DateIndexed.__init__ with value_type=dict
di_init(dates) ==
    LET keys == SortedSeq(dates \cup {Epoch})
    IN  [i \in 1..Len(keys) |-> [date |-> keys[i], has |-> FALSE, val |-> 0]]

\* DateIndexed.dates
di_dates(di) == {di[i].date : i \in 1..Len(di)}

\* A variant of _find that walks the items forwards: the first item whose date is <= d.
di_find_mut(di, d2) ==
    CHOOSE i \in 1..Len(di) :
        /\ di[i].date * 2 <= d2
        /\ \A j \in 1..(i - 1) : di[j].date * 2 > d2

\* DateIndexed._find: the last item whose date is <= d (the index of the item).
di_find(di, d2) ==
    CHOOSE i \in 1..Len(di) :
        /\ di[i].date * 2 <= d2
        /\ \A j \in (i + 1)..Len(di) : di[j].date * 2 > d2

\* DateIndexed.__getitem__ with a [date, key] pair and a default_item that is not None.
di_get(di, d2, default_item) ==
    IF di[di_find(di, d2)].has THEN di[di_find(di, d2)].val ELSE default_item

\* DateIndexed.__setitem__
di_set(di, d2, value) ==
    [di EXCEPT ![di_find(di, d2)] = [date |-> @.date, has |-> TRUE, val |-> value]]

(***************************************************************************)
(* The revs of a satellite.  SatelliteModel.construct_rev_intervals and    *)
(* scheduler.core.build_rev_constraint_dict are called by pushbroom.py but *)
(* are not part of the source tree; they are modelled from the             *)
(* specification: the rev-boundary events partition the bounding interval, *)
(* the leading and trailing partial revs closed at its start and stop, and *)
(* the rev-indexed map has one transition per rev, at the rev's start.     *)
(***************************************************************************)
construct_rev_intervals(events, bounding_interval) ==
    LET b == SortedSeq({bounding_interval.start, bounding_interval.stop} \cup
                       {e \in events : bounding_interval.start < e /\ e < bounding_interval.stop})
    IN  [i \in 1..(Len(b) - 1) |-> [start |-> b[i], stop |-> b[i + 1]]]

build_rev_constraint_dict(revs) == di_init({revs[i].start : i \in 1..Len(revs)})

(***************************************************************************)
(* scheduler/pushbroom.py: build_duty_cycle_limits.  A duty cycle is the   *)
(* number of DutyDen-ths; a budget is counted in DutyDen-ths of a tick.    *)
(***************************************************************************)
\* max(0.0, min(1.0, sensor.data.duty_cycle))
clamp_duty_cycle(duty_cycle) ==
    IF duty_cycle < 0 THEN 0 ELSE IF duty_cycle > DutyDen THEN DutyDen ELSE duty_cycle

\* The loop over the revs: limits[[rev.start.shiftedBy(rev.duration_secs), "duty_cycle"]] is
\* set to duty_cycle * rev.duration_secs, rev after rev.
RECURSIVE seed_limits(_, _, _, _)
seed_limits(limits, revs, i, duty_cycle) ==
    IF i > Len(revs) THEN limits
    ELSE LET duration_secs == revs[i].stop - revs[i].start
             mid == revs[i].start + duration_secs
         IN  seed_limits(di_set(limits, 2 * mid, duty_cycle * duration_secs), revs, i + 1, duty_cycle)

build_duty_cycle_limits(revs, sensor_duty_cycle, keys) ==
    [k \in keys |-> seed_limits(build_rev_constraint_dict(revs), revs, 1,
                                clamp_duty_cycle(sensor_duty_cycle))]

(***************************************************************************)
(* scheduler/solver.py and scheduler/scheduler.py: the solver model.       *)
(* A SolverAoi is [paoi, score, batch, intervals]: the (modified) AOI, its *)
(* score, the batch whose solver made its variables, and its               *)
(* SolverIntervals [original, pos, value]: the candidate interval, the     *)
(* place of its start/stop variables among the variables of their solver   *)
(* (variables 2*pos and 2*pos+1), and the interval between their solution  *)
(* values (None when they are equal or the solver has no solution).        *)
(***************************************************************************)
\* platforms.generate_ids(): one key per satellite and sensor.
generate_ids == <<[sat_id |-> "sat1", payload_id |-> "s1"], [sat_id |-> "sat1", payload_id |-> "s2"]>>

\* add_aois_to_solvers: key = key_type(sat_model.id, sensor_model.id)
key_type(paoi) == [sat_id |-> paoi.sat, payload_id |-> paoi.sensor]

\* filter_aois_no_access
filter_aois_no_access(aois) == SelectSeq(aois, LAMBDA aoi : dil_len(aoi.intervals) > 0)

\* BatchData.paoi_modifer: orekitfactory's list subtraction is taken to be the
\* repository's own IntervalListOperations.subtract.
paoi_modifer(paoi, intervals) ==
    IF dil_len(intervals) > 0
    THEN [paoi EXCEPT !.intervals = list_subtract(paoi.intervals, intervals).dates]
    ELSE paoi

\* add_to_solver with SolverInterval.create: two variables per interval of the AOI.
add_to_solver(paoi, score, batch, first_pos) ==
    [paoi |-> paoi, score |-> score, batch |-> batch,
     intervals |-> [i \in 1..dil_len(paoi.intervals) |->
                      [original |-> dil_get(paoi.intervals, i - 1), pos |-> first_pos + i - 1,
                       value |-> None]]]

\* The number of SolverIntervals the solver of a batch has made so far.
RECURSIVE created(_, _)
created(aois, batch) ==
    IF aois = <<>> THEN 0
    ELSE created(SubSeq(aois, 1, Len(aois) - 1), batch) +
         (IF aois[Len(aois)].batch = batch
          THEN Len(aois[Len(aois)].intervals) ELSE 0)

\* add_aois_to_solvers with the callback BatchData.each_aoi, for one key: every AOI of
\* the batch with this key is appended to solver_aois[key], which is an attribute of
\* the class BatchData and so still holds what earlier batches appended.
RECURSIVE add_aois_to_solvers(_, _, _, _, _)
add_aois_to_solvers(aois, key, intervals, batch, added) ==
    IF aois = <<>> THEN added
    ELSE IF key_type(aois[1].aoi) # key
         THEN add_aois_to_solvers(Tail(aois), key, intervals, batch, added)
         ELSE add_aois_to_solvers(Tail(aois), key, intervals, batch,
                  Append(added,
                         add_to_solver(paoi_modifer(aois[1].aoi, intervals), aois[1].score,
                                       batch, created(added, batch))))

\* A variable of a SolverInterval: interval i of the a-th SolverAoi, end "start" or "stop".
VarStart(a, i) == [a |-> a, i |-> i, end |-> "start"]
VarStop(a, i) == [a |-> a, i |-> i, end |-> "stop"]

\* The LinearConstraint objects that `x == y` and `x >= y` make of two variables.
EqConstraint(x, y) == [op |-> "==", lhs |-> x, rhs |-> y]
GeConstraint(x, y) == [op |-> ">=", lhs |-> x, rhs |-> y]

\* Python's `a or b or c or d` on LinearConstraint objects: an object without __bool__
\* is true, so the value is the first operand.
python_or(operands) == operands[1]

\* constrain_non_overlapping: the constraints given to solver.Add for two SolverAois.
constrain_non_overlapping(aois, a1, a2) ==
    LET intersection == list_intersection(aois[a1].paoi.intervals, aois[a2].paoi.intervals)
        ivls(a, inter) == {i \in 1..Len(aois[a].intervals) :
                              overlaps(aois[a].intervals[i].original, inter, TRUE, TRUE)}
    IN  UNION {{[i1 |-> <<a1, i1>>, i2 |-> <<a2, i2>>,
                 added |-> python_or(<<EqConstraint(VarStart(a1, i1), VarStop(a1, i1)),
                                       EqConstraint(VarStart(a2, i2), VarStop(a2, i2)),
                                       GeConstraint(VarStart(a1, i1), VarStop(a2, i2)),
                                       GeConstraint(VarStart(a2, i2), VarStop(a1, i1))>>)] :
                    i1 \in ivls(a1, dil_get(intersection, n - 1)),
                    i2 \in ivls(a2, dil_get(intersection, n - 1))} :
               n \in 1..dil_len(intersection)}

\* add_non_overlapping_constraints: every pair of SolverAois, the earlier one first.
add_non_overlapping_constraints(aois) ==
    UNION {UNION {constrain_non_overlapping(aois, a1, a2) : a2 \in (a1 + 1)..Len(aois)} :
              a1 \in 1..Len(aois)}

\* The SolverIntervals of a list of SolverAois, as <<a, i>>, in the order of the list.
RECURSIVE interval_ids(_, _)
interval_ids(aois, a) ==
    IF a > Len(aois) THEN <<>>
    ELSE [i \in 1..Len(aois[a].intervals) |-> <<a, i>>] \o interval_ids(aois, a + 1)

\* Those whose variables the solver of this batch made (the n-th has pos n - 1) ...
new_ids(aois, batch) == SelectSeq(interval_ids(aois, 1), LAMBDA id : aois[id[1]].batch = batch)

\* ... and those left in the class attribute by earlier batches.  Their variables
\* belonged to a solver that was destroyed with the BatchData of its batch.
stale_ids(aois, batch) ==
    {id \in {interval_ids(aois, 1)[n] : n \in 1..Len(interval_ids(aois, 1))} : aois[id[1]].batch # batch}

(***************************************************************************)
(* Using a variable of a destroyed solver is undefined behaviour.  The     *)
(* outcomes modelled: the process dies; or the freed variable is still     *)
(* intact, keeps its solution value, and its index (2*pos, 2*pos+1) names  *)
(* the variable of the current solver with the same index; or the memory   *)
(* of one stale SolverInterval has been reused and its start is now the    *)
(* start variable, its stop the stop variable, of any two SolverIntervals  *)
(* of the current solver.  An intact index beyond the current solver's     *)
(* variables leaves only the first outcome.                                *)
(***************************************************************************)
Aliasings(aois, batch) ==
    LET stale == stale_ids(aois, batch)
        count == Len(new_ids(aois, batch))
        inrange(id) == aois[id[1]].intervals[id[2]].pos < count
        intact == [id \in stale |-> [mode |-> "intact"]]
    IN  IF stale = {} THEN {intact}
        ELSE {intact : x \in {x \in {1} : \A id \in stale : inrange(id)}} \cup
             {[intact EXCEPT ![r] = [mode |-> "recycled", start |-> [n |-> x, end |-> "start"],
                                     stop |-> [n |-> y, end |-> "stop"]]] :
                 r \in {r \in stale : \A id \in stale \ {r} : inrange(id)},
                 x \in 1..count, y \in 1..count}

\* The variable of the current solver that a variable of a SolverInterval denotes.
target(aois, batch, alias, v) ==
    IF aois[v.a].batch = batch \/ alias[<<v.a, v.i>>].mode = "intact"
    THEN [n |-> aois[v.a].intervals[v.i].pos + 1, end |-> v.end]
    ELSE IF v.end = "start" THEN alias[<<v.a, v.i>>].start ELSE alias[<<v.a, v.i>>].stop

\* The value an assignment gives it; an assignment is the sequence of the [start, stop]
\* values of the current solver's SolverIntervals.
value_of(aois, batch, alias, asg, v) ==
    LET t == target(aois, batch, alias, v)
    IN  IF t.end = "start" THEN asg[t.n].start ELSE asg[t.n].stop

\* Whether an assignment satisfies a LinearConstraint.
Admits(constraint, aois, batch, alias, asg) ==
    IF constraint.op = "=="
    THEN value_of(aois, batch, alias, asg, constraint.lhs) = value_of(aois, batch, alias, asg, constraint.rhs)
    ELSE value_of(aois, batch, alias, asg, constraint.lhs) >= value_of(aois, batch, alias, asg, constraint.rhs)

RECURSIVE SeqSum(_)
SeqSum(s) == IF s = <<>> THEN 0 ELSE s[1] + SeqSum(Tail(s))

\* BatchData.durations after each_aoi: for every item of the limits, the SolverIntervals
\* of this batch whose original start falls in the item (their places in the assignment).
durations(aois, batch, limits) ==
    LET ids == new_ids(aois, batch)
    IN  [b \in 1..Len(limits) |->
            SelectSeq([n \in 1..Len(ids) |-> n],
                      LAMBDA n : di_find(limits, 2 * aois[ids[n][1]].intervals[ids[n][2]].original.start) = b)]

\* SolverInterval.create: the bounds of the two variables and start <= stop.  A fresh
\* solver's constraints do not tell zero-length values apart, so one stands for all.
SubIntervals(original, any_zero) ==
    {iv \in [start : original.start..original.stop, stop : original.start..original.stop] :
        \/ iv.start < iv.stop
        \/ iv.start = iv.stop /\ (any_zero \/ iv.start = original.start)}

RECURSIVE Assignments(_, _, _)
Assignments(aois, ids, any_zero) ==
    IF ids = <<>> THEN {<<>>}
    ELSE {Append(f, c) : f \in Assignments(aois, SubSeq(ids, 1, Len(ids) - 1), any_zero),
                         c \in SubIntervals(aois[ids[Len(ids)][1]].intervals[ids[Len(ids)][2]].original,
                                            any_zero)}

\* add_final_constraints: the assignments that satisfy the non-overlapping constraints
\* and, for every date of the limits, Sum(durations[d]) <= duration_limit[[d, "duty_cycle"]].
FeasibleSet(aois, batch, limits, alias) ==
    LET added == add_non_overlapping_constraints(aois)
        dur == durations(aois, batch, limits)
    IN  {asg \in Assignments(aois, new_ids(aois, batch), stale_ids(aois, batch) # {}) :
            /\ \A c \in added : Admits(c.added, aois, batch, alias, asg)
            /\ \A b \in 1..Len(limits) :
                  DutyDen * SeqSum([j \in 1..Len(dur[b]) |-> asg[dur[b][j]].stop - asg[dur[b][j]].start])
                      <= di_get(limits, 2 * limits[b].date, 0)}

\* solver.Maximize(solver.Sum(scores[key])): every SolverAoi of the list adds
\* score * Sum(stop - start) over its SolverIntervals.
Objective(aois, batch, alias, asg) ==
    LET ids == interval_ids(aois, 1)
    IN  SeqSum([n \in 1..Len(ids) |->
            aois[ids[n][1]].score * (value_of(aois, batch, alias, asg, VarStop(ids[n][1], ids[n][2])) -
                                     value_of(aois, batch, alias, asg, VarStart(ids[n][1], ids[n][2])))])

\* solver.Solve() with its read-out, as [result, alias, asg]: the process dies (only
\* with stale variables); or the solver fails (ABNORMAL whatever the model, INFEASIBLE
\* when no assignment is feasible); or it returns a feasible assignment (FEASIBLE) or
\* one of greatest objective (OPTIMAL).
SolverOutcomes(aois, batch, limits) ==
    LET solved(al) ==
            LET feasible == FeasibleSet(aois, batch, limits, al)
                vals == {Objective(aois, batch, al, o) : o \in feasible}
            IN  IF feasible = {} THEN {[result |-> "INFEASIBLE", alias |-> <<>>, asg |-> <<>>]}
                ELSE {[result |-> "FEASIBLE", alias |-> al, asg |-> asg] : asg \in feasible} \cup
                     {[result |-> "OPTIMAL", alias |-> al, asg |-> asg] :
                         asg \in {o \in feasible : \A v \in vals : Objective(aois, batch, al, o) >= v}}
    IN  {[result |-> "crash", alias |-> <<>>, asg |-> <<>>] : x \in {x \in {1} : stale_ids(aois, batch) # {}}} \cup
        {[result |-> "ABNORMAL", alias |-> <<>>, asg |-> <<>>]} \cup
        UNION {solved(al) : al \in Aliasings(aois, batch)}

\* result_is_successful
result_is_successful(result) == result = "OPTIMAL" \/ result = "FEASIBLE"

\* SolverInterval.get_solution, None for (False, None): the interval between the
\* solution values of the two variables, unless they are equal.
get_solution(aois, batch, alias, asg, id) ==
    IF aois[id[1]].batch # batch /\ alias[id].mode = "intact"
    THEN aois[id[1]].intervals[id[2]].value
    ELSE LET t0 == value_of(aois, batch, alias, asg, VarStart(id[1], id[2]))
             t1 == value_of(aois, batch, alias, asg, VarStop(id[1], id[2]))
         IN  IF t0 = t1 THEN None ELSE DateInterval(t0, t1)

\* One record_result call per SolverInterval, in order, with ivl=ivl.original.
RECURSIVE record_each(_, _, _, _, _)
record_each(rep, aois, ids, codes, interval_overlap) ==
    IF ids = <<>> THEN rep
    ELSE record_each(record_result(rep, aois[ids[1][1]].paoi.id, codes[1], aois[ids[1][1]].paoi.sat,
                                   aois[ids[1][1]].paoi.sensor, NaT, NaT,
                                   aois[ids[1][1]].intervals[ids[1][2]].original, FALSE, interval_overlap),
                     aois, Tail(ids), Tail(codes), interval_overlap)

\* record_all
record_all(rep, aois, result) ==
    LET ids == interval_ids(aois, 1)
    IN  record_each(rep, aois, ids, [n \in 1..Len(ids) |-> result], TRUE)

\* record_and_consolidate_intervals: the report, and the list as_dateintervallist makes
\* of the valid solutions.  solutions[n] is the solution of the n-th SolverInterval.
record_and_consolidate_intervals(rep, aois, solutions) ==
    [report |-> record_each(rep, aois, interval_ids(aois, 1),
                            [n \in 1..Len(solutions) |-> IF solutions[n] # None THEN SCHEDULED
                                                        ELSE EXCEEDED_PAYLOAD_DUTY_CYCLE], TRUE),
     intervals |-> DateIntervalList(SelectSeq(solutions, LAMBDA s : s # None), TRUE)]

\* BatchData.cleanup, the loop over the dates: every budget <= 0 is set to 0.
cleanup_limits(limits) ==
    [i \in 1..Len(limits) |->
        IF di_get(limits, 2 * limits[i].date, 0) <= 0
        THEN [date |-> limits[i].date, has |-> TRUE, val |-> 0]
        ELSE limits[i]]

\* BatchData.cleanup: zero_count == len(self.duration_limit[k])
all_zero(limits) == \A i \in 1..Len(limits) : di_get(limits, 2 * limits[i].date, 0) <= 0

\* schedule_batch: for ivl in intervals: for rev in revs: the part of ivl inside rev is
\* added to totals at the part's midpoint (n and r count the two loops).
RECURSIVE add_totals(_, _, _, _, _)
add_totals(totals, intervals, revs, n, r) ==
    IF n > dil_len(intervals) THEN totals
    ELSE IF r > Len(revs) THEN add_totals(totals, intervals, revs, n + 1, 1)
    ELSE LET i == intersect(dil_get(intervals, n - 1), revs[r])
         IN  add_totals(IF i # None
                        THEN di_set(totals, i.start + i.stop,
                                    di_get(totals, i.start + i.stop, 0) + (i.stop - i.start))
                        ELSE totals,
                        intervals, revs, n, r + 1)

\* schedule_batch: for rev in revs: the limit at the rev's midpoint loses the total there.
RECURSIVE debit_limits(_, _, _, _)
debit_limits(limits, totals, revs, r) ==
    IF r > Len(revs) THEN limits
    ELSE debit_limits(di_set(limits, revs[r].start + revs[r].stop,
                             di_get(limits, revs[r].start + revs[r].stop, 0) -
                                 DutyDen * di_get(totals, revs[r].start + revs[r].stop, 0)),
                      totals, revs, r + 1)

(***************************************************************************)
(* scheduler/pushbroom.py: schedule_batch.  The state a batch works on is  *)
(* [report, payload_intervals, duration_limit, solver_aois, last, crashed];*)
(* last[k] is [batch, result, aois] of the latest batch that had a solver  *)
(* for k: its number, the status of the solver ("none" when cleanup        *)
(* removed the solver) and the SolverAois the solver was given.            *)
(***************************************************************************)
\* The SolverAois with the solution values read out of their variables.
with_values(aois, solutions) ==
    LET ids == interval_ids(aois, 1)
    IN  [a \in 1..Len(aois) |->
            [aois[a] EXCEPT !.intervals =
                [i \in 1..Len(aois[a].intervals) |->
                    [aois[a].intervals[i] EXCEPT !.value =
                        solutions[CHOOSE n \in 1..Len(solutions) : ids[n] = <<a, i>>]]]]]

\* solve and the rest of the loop body of schedule_batch for one key, given what
\* solver.Solve() did.
after_solve(st, k, aois, limits, batch, revs, outcome) ==
    IF outcome.result = "crash" THEN [st EXCEPT !.crashed = TRUE]
    ELSE IF ~result_is_successful(outcome.result)
    THEN [st EXCEPT !.report = record_all(@, aois, SOLVER_INFEASIBLE_SOLUTION),
                    !.duration_limit[k] = limits,
                    !.solver_aois[k] = aois,
                    !.last[k] = [batch |-> batch, result |-> outcome.result, aois |-> aois]]
    ELSE LET ids == interval_ids(aois, 1)
             solutions == [n \in 1..Len(ids) |-> get_solution(aois, batch, outcome.alias, outcome.asg, ids[n])]
             recorded == record_and_consolidate_intervals(st.report, aois, solutions)
             totals == add_totals(di_init(di_dates(limits)), recorded.intervals, revs, 1, 1)
         IN  [st EXCEPT !.report = recorded.report,
                        !.duration_limit[k] = debit_limits(limits, totals, revs, 1),
                        !.payload_intervals[k] = list_union(@, recorded.intervals),
                        !.solver_aois[k] = with_values(aois, solutions),
                        !.last[k] = [batch |-> batch, result |-> outcome.result, aois |-> aois]]

\* add_aois_to_solvers, cleanup, add_final_constraints and the solve loop for one key
\* that has a solver in this batch: the states it can leave.
schedule_key(st, k, scored, batch, revs) ==
    LET aois == add_aois_to_solvers(scored, k, st.payload_intervals[k], batch, st.solver_aois[k])
        limits == cleanup_limits(st.duration_limit[k])
        ids == interval_ids(aois, 1)
    IN  IF all_zero(st.duration_limit[k])
        THEN {[st EXCEPT !.report = record_each(@, aois, ids,
                                        [n \in 1..Len(ids) |-> EXCEEDED_PAYLOAD_DUTY_CYCLE], FALSE),
                         !.duration_limit[k] = limits,
                         !.solver_aois[k] = <<>>,
                         !.last[k] = [batch |-> batch, result |-> "none", aois |-> aois]]}
        ELSE {after_solve(st, k, aois, limits, batch, revs, outcome) :
                 outcome \in SolverOutcomes(aois, batch, limits)}

\* schedule_batch: the keys one after another; a key has a solver when an AOI of the
\* batch belongs to it.
RECURSIVE schedule_batch(_, _, _, _, _)
schedule_batch(st, keys, scored, batch, revs) ==
    IF keys = <<>> \/ st.crashed THEN {st}
    ELSE IF \A n \in 1..Len(scored) : key_type(scored[n].aoi) # keys[1]
    THEN schedule_batch(st, Tail(keys), scored, batch, revs)
    ELSE UNION {schedule_batch(s, Tail(keys), scored, batch, revs) :
                   s \in schedule_key(st, keys[1], scored, batch, revs)}

(***************************************************************************)
(* scheduler/core.py: Schedule, ScheduleBase, ScheduleEncoder.  A call      *)
(* either raises or returns a value.                                       *)
(***************************************************************************)
Raised(error) == [raised |-> TRUE, error |-> error]
Returned(value) == [raised |-> FALSE, value |-> value]

\* A variant of the sort that puts later intervals first.
activity_insert_mut(sorted, x) ==
    IF sorted = <<>> THEN <<x>> ELSE <<x>> \o sorted

\* list.sort(key=lambda a: a.interval): a stable insertion sort driven by __lt__.
RECURSIVE activity_insert(_, _)
activity_insert(sorted, x) ==
    IF sorted = <<>> THEN <<x>>
    ELSE IF ivl_lt(x.interval, sorted[Len(sorted)].interval)
         THEN Append(activity_insert(SubSeq(sorted, 1, Len(sorted) - 1), x), sorted[Len(sorted)])
         ELSE Append(sorted, x)

RECURSIVE sort_activities(_)
sort_activities(activities) ==
    IF activities = <<>> THEN <<>>
    ELSE activity_insert(sort_activities(SubSeq(activities, 1, Len(activities) - 1)),
                         activities[Len(activities)])

\* Schedule(id=..., intervals=..., activities=...) and its __post_init__; is_list tells
\* whether activities is a list (which has sort) or a tuple (which has not).
schedule_post_init(id, intervals, activities, is_list) ==
    IF activities = <<>>
    THEN Returned([id |-> id, intervals |-> intervals, activities |-> <<>>])
    ELSE IF ~is_list THEN Raised("AttributeError")
    ELSE Returned([id |-> id, intervals |-> intervals, activities |-> sort_activities(activities)])

\* Schedule.add_intervals: activities=self.activities, the tuple __post_init__ stored.
add_intervals(self, ivl) ==
    schedule_post_init(self.id, list_union(self.intervals, ivl), self.activities, FALSE)

\* Schedule.with_intervals
with_intervals(self, ivl) == schedule_post_init(self.id, ivl, self.activities, FALSE)

\* Schedule.with_activities: activities=tuple(activities)
with_activities(self, activities) == schedule_post_init(self.id, self.intervals, activities, FALSE)

\* ScheduleEncoder.default on a DateInterval: [str(o.start), str(o.stop)]
encode_interval(o) == <<[str |-> o.start], [str |-> o.stop]>>

\* ScheduleBase.to_json: the encoded to_dict of the schedule and of its activities.
to_json(self) ==
    [id |-> self.id,
     intervals |-> [n \in 1..dil_len(self.intervals) |-> encode_interval(dil_get(self.intervals, n - 1))],
     activities |-> [n \in 1..Len(self.activities) |->
                        [self.activities[n] EXCEPT !.interval = encode_interval(@)]]]

\* The type hook as_dateinterval of _DACITE_CONFIG, on a pair of date strings.
as_dateinterval(pair) == DateInterval(pair[1].str, pair[2].str)

\* ScheduleBase.from_dict, a classmethod that takes one argument: dacite builds the
\* dataclass from the dict, the lists of date pairs passing through the type hooks.
from_dict(args) ==
    IF Len(args) # 1 THEN Raised("TypeError")
    ELSE LET data == args[1]
         IN  schedule_post_init(
                 data.id,
                 DateIntervalList([n \in 1..Len(data.intervals) |-> as_dateinterval(data.intervals[n])], TRUE),
                 [n \in 1..Len(data.activities) |->
                     [data.activities[n] EXCEPT !.interval = as_dateinterval(@)]],
                 TRUE)

\* ScheduleBase.from_json: json.loads, then cls.from_dict(cls, data).
from_json(cls, json_data) == from_dict(<<cls, json_data>>)

\* execute: the activities of a key's schedule, one per committed interval.
key_activities(k, intervals) ==
    [n \in 1..dil_len(intervals) |->
        [interval |-> dil_get(intervals, n - 1), sat_id |-> k.sat_id, payload_id |-> k.payload_id]]

\* execute: the Schedule of a key, built from a list of activities.
Schedule(k, intervals) ==
    schedule_post_init(<<k.sat_id, k.payload_id>>, intervals, key_activities(k, intervals), TRUE).value

\* execute: record_bonusing key after key.
RECURSIVE bonus_all(_, _, _)
bonus_all(rep, keys, payload) ==
    IF keys = <<>> THEN rep
    ELSE bonus_all(record_bonusing(rep, keys[1].sat_id, payload[keys[1]], keys[1].payload_id),
                   Tail(keys), payload)

(***************************************************************************)
(* Each specification below runs one part of the program and leaves the    *)
(* variables of the other parts at these values.                           *)
(***************************************************************************)
AlgIdle == algA = <<>> /\ algB = <<>> /\ algOp = [name |-> "idle", span |-> None] /\ algOut = Ok(<<>>)

ScoreIdle == scoreIn = <<>> /\ scoreOut = <<>> /\ scoreRuns = 0

RepIdle == report = <<>>

SchedIdle ==
    /\ pc = "idle" /\ config = <<>> /\ preprocessed = <<>> /\ scored_aois = <<>>
    /\ batch_size = 0 /\ batch_start = 0 /\ payload_intervals = <<>> /\ duration_limit = <<>>
    /\ solver_aois = <<>> /\ last = <<>> /\ schedules = <<>>

OvIdle == ovSelf = None /\ ovOther = None /\ ovOut = [call |-> "idle"]

DiIdle == diDates = {} /\ dindex = <<>> /\ diLast = [op |-> "idle"]

ScIdle == schedule = <<>> /\ scOut = [call |-> "idle"]

AoiIdle == aoiEvents = <<>> /\ builder = <<>> /\ aoiOut = [call |-> "idle"]

SunIdle == sunHandler = <<>> /\ sunG = <<>> /\ sunOut = [call |-> "idle"]

PpIdle == ppAois = <<>> /\ ppHandlers = <<>> /\ ppOut = [call |-> "idle"]

RnIdle == rnPre = <<>> /\ rnThreads = <<>> /\ rnMain = [pc |-> "idle"] /\ rnOut = [call |-> "idle"]

\* The machines of the preprocessing are idle.
PreIdle == PpIdle /\ RnIdle

UnitIdle == OvIdle /\ DiIdle /\ ScIdle /\ AoiIdle /\ SunIdle /\ PreIdle

MainIdle == AlgIdle /\ ScoreIdle /\ RepIdle /\ SchedIdle


(***************************************************************************)
(* The interval algebra as a state machine: two operand lists built by the *)
(* constructor from arbitrary intervals, and one operation applied to them.*)
(***************************************************************************)
\* Every DateInterval over the dates 0..MaxDate (zero-length ones included).
AlgIntervals == {DateInterval(a, b) : a \in 0..MaxDate, b \in 0..MaxDate}

\* Every iterable of at most MaxIvls intervals.
AlgRawInputs == UNION {[1..n -> AlgIntervals] : n \in 0..MaxIvls}

\* _verifylist: what the constructor makes of an iterable of intervals.
verifylist(raw) == DateIntervalList(raw, TRUE)

AlgLists == {verifylist(raw) : raw \in AlgRawInputs}

InitAlg ==
    /\ algA \in AlgLists
    /\ algB \in AlgLists
    /\ algOp = [name |-> "none", span |-> None]
    /\ algOut = Ok(<<>>)
    /\ ScoreIdle /\ RepIdle /\ SchedIdle /\ UnitIdle

AlgUnion ==
    /\ algOp' = [name |-> "union", span |-> None]
    /\ algOut' = Ok(list_union(algA, algB))
    /\ UNCHANGED <<algA, algB, scoreVars, repVars, schedVars, unitVars>>

AlgIntersection ==
    /\ algOp' = [name |-> "intersection", span |-> None]
    /\ algOut' = Ok(list_intersection(algA, algB))
    /\ UNCHANGED <<algA, algB, scoreVars, repVars, schedVars, unitVars>>

AlgSubtract ==
    /\ algOp' = [name |-> "subtract", span |-> None]
    /\ algOut' = list_subtract(algA, algB)
    /\ UNCHANGED <<algA, algB, scoreVars, repVars, schedVars, unitVars>>

AlgCompliment ==
    \E sp \in {i \in AlgIntervals : TRUE} :
        /\ algOp' = [name |-> "compliment", span |-> sp]
        /\ algOut' = compliment(algA, sp)
        /\ UNCHANGED <<algA, algB, scoreVars, repVars, schedVars, unitVars>>

NextAlg == AlgUnion \/ AlgIntersection \/ AlgSubtract \/ AlgCompliment

SpecAlgebra == InitAlg /\ [][NextAlg]_vars

\* The unit cells [t, t+1) covered by the intervals of a list.
Cells(l) == {t \in 0..(MaxDate - 1) : \E k \in 1..dil_len(l) : l[2 * k - 1] <= t /\ t < l[2 * k]}

\* Sorted by start with i_k.stop < i_{k+1}.start for adjacent intervals.
Canonical(l) ==
    /\ Len(l) % 2 = 0
    /\ \A k \in 1..dil_len(l) : l[2 * k - 1] <= l[2 * k]
    /\ \A k \in 1..(dil_len(l) - 1) : l[2 * k] < l[2 * k + 1]

\* C8: every list produced by the constructor or returned by union, intersection,
\* subtract or compliment on constructor-made lists is sorted, non-overlapping and
\* non-abutting (i_k.stop < i_{k+1}.start).
C8_ListsCanonical ==
    /\ Canonical(algA) /\ Canonical(algB)
    /\ (~algOut.raised => Canonical(algOut.dates))

\* C9: intersection(A, B) covers exactly the instants in some interval of A and in
\* some interval of B.
C9_IntersectionExact ==
    algOp.name = "intersection" => Cells(algOut.dates) = Cells(algA) \cap Cells(algB)

\* C10: subtract(A, B) shares no instant with B, and intersection(subtract(A, B), B)
\* is the empty list.
C10_SubtractDisjoint ==
    (algOp.name = "subtract" /\ ~algOut.raised) =>
        /\ Cells(algOut.dates) \cap Cells(algB) = {}
        /\ list_intersection(algOut.dates, algB) = <<>>

\* C11: intersection(A, B) and intersection(B, A) return the same interval list, for
\* all lists A and B the constructor makes of sequences of intervals.
C11_IntersectionCommutes ==
    algOp.name = "intersection" => algOut = Ok(list_intersection(algB, algA))

\* C11 witness: an intersection of two different two-interval lists returned two
\* intervals.
C11_Witness ==
    /\ algOp.name = "intersection"
    /\ algA # algB /\ dil_len(algA) = 2 /\ dil_len(algB) = 2
    /\ dil_len(algOut.dates) = 2

\* C12: compliment(A, span) returns a list that covers exactly the instants of span
\* lying in no interval of A, wherever A lies relative to span.
C12_ComplimentExact ==
    algOp.name = "compliment" =>
        /\ ~algOut.raised
        /\ Cells(algOut.dates) = Cells(<<algOp.span.start, algOp.span.stop>>) \ Cells(algA)

(***************************************************************************)
(* The interval algebra with an empty operand: one of the two lists is      *)
(* empty, the other is any list of up to WideMaxIvls intervals.            *)
(***************************************************************************)
WideLists ==
    LET ivls == {DateInterval(a, b) : a \in 0..WideMaxDate, b \in 0..WideMaxDate}
    IN  {verifylist(raw) : raw \in UNION {[1..n -> ivls] : n \in 0..WideMaxIvls}}

InitEmptyOperand ==
    /\ \/ algA = <<>> /\ algB \in WideLists
       \/ algB = <<>> /\ algA \in WideLists
    /\ algOp = [name |-> "none", span |-> None]
    /\ algOut = Ok(<<>>)
    /\ ScoreIdle /\ RepIdle /\ SchedIdle /\ UnitIdle

SpecEmptyOperand == InitEmptyOperand /\ [][NextAlg]_vars

\* C14: with an empty list as either operand no operation fails; intersection returns
\* the empty list, subtract(empty, B) returns the empty list and subtract(A, empty)
\* returns A.
C14_EmptyOperands ==
    (algA = <<>> \/ algB = <<>>) =>
        /\ ~algOut.raised
        /\ algOp.name = "intersection" => algOut.dates = <<>>
        /\ (algOp.name = "subtract" /\ algA = <<>>) => algOut.dates = <<>>
        /\ (algOp.name = "subtract" /\ algB = <<>>) => algOut.dates = algA

(***************************************************************************)
(* DateInterval.overlaps as a state machine: a receiver, an argument, and   *)
(* one call with some choice of the two flags.                             *)
(***************************************************************************)
InitOverlaps ==
    /\ ovSelf \in AlgIntervals
    /\ ovOther \in AlgIntervals
    /\ ovOut = [call |-> "none"]
    /\ MainIdle /\ DiIdle /\ ScIdle /\ AoiIdle /\ SunIdle /\ PreIdle

Overlaps ==
    \E startInclusive \in BOOLEAN, stopInclusive \in BOOLEAN :
        /\ ovOut' = [call |-> "overlaps", startInclusive |-> startInclusive,
                     stopInclusive |-> stopInclusive,
                     result |-> overlaps(ovSelf, ovOther, startInclusive, stopInclusive)]
        /\ UNCHANGED <<ovSelf, ovOther, ovRest>>

NextOverlaps == Overlaps

SpecOverlaps == InitOverlaps /\ [][NextOverlaps]_vars

\* C13: for intervals [a,b) and [c,d) of positive length, overlaps with the default
\* flags (startInclusive, not stopInclusive) is true exactly when a < d and c < b, and
\* so gives the same answer with receiver and argument swapped; with stopInclusive an
\* interval whose stop equals the other's start overlaps it.
C13_OverlapsHalfOpen ==
    (/\ ovOut.call = "overlaps" /\ ovOut.startInclusive
     /\ ovSelf.start < ovSelf.stop /\ ovOther.start < ovOther.stop) =>
        /\ ~ovOut.stopInclusive =>
              /\ ovOut.result = (ovSelf.start < ovOther.stop /\ ovOther.start < ovSelf.stop)
              /\ ovOut.result = overlaps(ovOther, ovSelf, TRUE, FALSE)
        /\ (ovOut.stopInclusive /\ ovSelf.stop = ovOther.start) => ovOut.result

(***************************************************************************)
(* A DateIndexed as a state machine: built from a sequence of dates (some   *)
(* may lie before the Unix epoch), then assigned to at instants at or after *)
(* the epoch.  Instants are given doubled, as in di_find.                  *)
(***************************************************************************)
DiInstants == (2 * Epoch)..(2 * DiMaxDate + 1)

InitDateIndexed ==
    /\ diDates \in SUBSET ((Epoch - 1)..DiMaxDate)
    /\ dindex = di_init(diDates)
    /\ diLast = [op |-> "init"]
    /\ MainIdle /\ OvIdle /\ ScIdle /\ AoiIdle /\ SunIdle /\ PreIdle

DiSetItem ==
    \E t2 \in DiInstants, value \in 1..DiMaxVal :
        /\ dindex' = di_set(dindex, t2, value)
        /\ diLast' = [op |-> "set", t |-> t2, value |-> value, before |-> dindex]
        /\ UNCHANGED <<diDates, diRest>>

NextDateIndexed == DiSetItem

SpecDateIndexed == InitDateIndexed /\ [][NextDateIndexed]_vars

\* The greatest transition (a constructor date or the epoch) that is <= the instant.
GreatestTransition(t2) ==
    CHOOSE d \in diDates \cup {Epoch} :
        /\ 2 * d <= t2
        /\ \A e \in diDates \cup {Epoch} : 2 * e <= t2 => e <= d

\* C15: a lookup at an instant at or after the epoch returns the collection of the
\* greatest transition <= the instant; an assignment at t is seen by exactly the
\* lookups that have the same greatest transition as t, and the collections of all
\* other transitions are left as they were.
C15_DateIndexedLookup ==
    /\ \A t2 \in DiInstants : dindex[di_find(dindex, t2)].date = GreatestTransition(t2)
    /\ diLast.op = "set" =>
          /\ \A t2 \in DiInstants :
                di_get(dindex, t2, 0) = IF GreatestTransition(t2) = GreatestTransition(diLast.t)
                                        THEN diLast.value
                                        ELSE di_get(diLast.before, t2, 0)
          /\ \A i \in 1..Len(dindex) :
                dindex[i].date # GreatestTransition(diLast.t) => dindex[i] = diLast.before[i]

\* C15 witness: among three or more transitions, an assignment at an instant strictly
\* between two transitions changed the collection of the one before it, which held
\* another value.
C15_Witness ==
    /\ diLast.op = "set" /\ Len(dindex) >= 3
    /\ GreatestTransition(diLast.t) > Epoch
    /\ 2 * GreatestTransition(diLast.t) < diLast.t
    /\ \E d \in diDates : 2 * d > diLast.t
    /\ di_get(diLast.before, diLast.t, 0) \notin {0, diLast.value}

(***************************************************************************)
(* A Schedule object as a state machine: built by the constructor from a    *)
(* list of activities, then one of its methods is called.                  *)
(***************************************************************************)
ScLists == {verifylist(raw) : raw \in UNION {[1..n -> {DateInterval(a, b) : a \in 0..ScMaxDate,
                                                                         b \in 0..ScMaxDate}] : n \in 0..1}}

ScActivities ==
    [interval : {i \in {DateInterval(a, b) : a \in 0..ScMaxDate, b \in 0..ScMaxDate} : i.start < i.stop},
     id : {"a1", "a2"}, sat_id : {"sat1"}, payload_id : {"s1"}]

ScActivityLists ==
    {l \in UNION {[1..n -> ScActivities] : n \in 0..ScMaxActs} :
        \A i \in 1..Len(l), j \in 1..Len(l) : i < j => l[i].id # l[j].id}

InitSchedule ==
    /\ schedule \in {schedule_post_init("s", l, a, TRUE).value : l \in ScLists, a \in ScActivityLists}
    /\ scOut = [call |-> "none"]
    /\ MainIdle /\ OvIdle /\ DiIdle /\ AoiIdle /\ SunIdle /\ PreIdle

ScWithIntervals ==
    \E x \in ScLists :
        /\ scOut' = [call |-> "with_intervals", self |-> schedule, arg |-> x, out |-> with_intervals(schedule, x)]
        /\ UNCHANGED <<schedule, scRest>>

ScAddIntervals ==
    \E x \in ScLists :
        /\ scOut' = [call |-> "add_intervals", self |-> schedule, arg |-> x, out |-> add_intervals(schedule, x)]
        /\ UNCHANGED <<schedule, scRest>>

ScWithActivities ==
    \E a \in ScActivityLists :
        /\ scOut' = [call |-> "with_activities", self |-> schedule, arg |-> a,
                     out |-> with_activities(schedule, a)]
        /\ UNCHANGED <<schedule, scRest>>

ScJsonRoundTrip ==
    /\ scOut' = [call |-> "from_json", self |-> schedule, arg |-> to_json(schedule),
                 out |-> from_json("Schedule", to_json(schedule))]
    /\ UNCHANGED <<schedule, scRest>>

NextSchedule == ScWithIntervals \/ ScAddIntervals \/ ScWithActivities \/ ScJsonRoundTrip

SpecSchedule == InitSchedule /\ [][NextSchedule]_vars

\* C16: each of with_intervals(x), add_intervals(x) and with_activities(a), called on
\* any Schedule s (with or without activities), returns a Schedule with the id of s
\* and the updated field, the other field being that of s, and leaves s as it was.
C16_PersistentUpdate ==
    scOut.call \in {"with_intervals", "add_intervals", "with_activities"} =>
        /\ schedule = scOut.self
        /\ ~scOut.out.raised
        /\ scOut.out.value.id = schedule.id
        /\ scOut.call = "with_intervals" =>
              /\ scOut.out.value.intervals = scOut.arg
              /\ scOut.out.value.activities = schedule.activities
        /\ scOut.call = "add_intervals" =>
              /\ scOut.out.value.intervals = list_union(schedule.intervals, scOut.arg)
              /\ scOut.out.value.activities = schedule.activities
        /\ scOut.call = "with_activities" =>
              /\ scOut.out.value.intervals = schedule.intervals
              /\ {scOut.out.value.activities[n] : n \in 1..Len(scOut.out.value.activities)} =
                     {scOut.arg[n] : n \in 1..Len(scOut.arg)}

\* C17: Schedule.from_json(s.to_json()) succeeds and yields a Schedule with the id,
\* the interval list and the activities of s.
C17_JsonRoundTrip ==
    scOut.call = "from_json" =>
        /\ ~scOut.out.raised
        /\ scOut.out.value = schedule

(***************************************************************************)
(* utils/dateutils.py: SafeListBuilder, and preprocessor/preprocessor.py:  *)
(* AoiHandler.  The builder is the record of its three private fields.     *)
(***************************************************************************)
\* SafeListBuilder.__init__
SafeListBuilder(start, stop) == [start |-> start, stop |-> stop, dates |-> <<>>]

\* SafeListBuilder.add_start: the builder after the call, or ValueError.
add_start(self, date) ==
    IF Len(self.dates) % 2 # 0 THEN Raised("ValueError")
    ELSE Returned([self EXCEPT !.dates = Append(self.dates, date)])

\* SafeListBuilder.add_stop: an empty builder first takes its start date.
add_stop(self, date) ==
    LET dates == IF self.dates = <<>> THEN <<self.start>> ELSE self.dates
    IN  IF Len(dates) % 2 = 0 THEN Raised("ValueError")
        ELSE Returned([self EXCEPT !.dates = Append(dates, date)])

\* A call DateIntervalList(**kwargs): Python raises TypeError for a keyword that is not
\* a parameter of __init__; a parameter left out takes its default.
DateIntervalList_call(kwargs) ==
    IF ~(DOMAIN kwargs \subseteq {"interval", "intervals", "_dates", "reduce_input"})
    THEN Raised("TypeError")
    ELSE Returned(DateIntervalList(IF "intervals" \in DOMAIN kwargs THEN kwargs.intervals ELSE <<>>,
                                   IF "reduce_input" \in DOMAIN kwargs THEN kwargs.reduce_input ELSE TRUE))

\* SafeListBuilder.build_list: an odd number of dates is closed with the stop date, the
\* dates are zipped two by two into intervals, and the list is constructed with
\* DateIntervalList(inervals=intervals, reduce_input=True).
build_list(self) ==
    LET dates == IF Len(self.dates) % 2 # 0 THEN Append(self.dates, self.stop) ELSE self.dates
        intervals == [n \in 1..(Len(dates) \div 2) |-> DateInterval(dates[2 * n - 1], dates[2 * n])]
    IN  [self |-> [self EXCEPT !.dates = dates],
         out |-> DateIntervalList_call([inervals |-> intervals, reduce_input |-> TRUE])]

\* Preprocessor.__call__ gives each handler SafeListBuilder(interval.start, interval.stop);
\* the horizon of the model is [0, EvMaxT].
InitAoiHandler ==
    /\ MainIdle /\ OvIdle /\ DiIdle /\ ScIdle /\ SunIdle /\ PreIdle
    /\ aoiEvents = <<>>
    /\ builder = SafeListBuilder(0, EvMaxT)
    /\ aoiOut = [call |-> "none"]

\* AoiHandler.eventOccurred: the propagator delivers events in strictly increasing time;
\* increasing g is an exit (add_stop), decreasing g an entry (add_start); an exception
\* of the builder is logged and raised again, which ends the propagation.
AoiEventOccurred ==
    /\ aoiOut.call = "none"
    /\ \E date \in 1..(EvMaxT - 1), increasing \in BOOLEAN :
          /\ aoiEvents # <<>> => aoiEvents[Len(aoiEvents)].date < date
          /\ aoiEvents' = Append(aoiEvents, [date |-> date, increasing |-> increasing])
          /\ LET r == IF increasing THEN add_stop(builder, date) ELSE add_start(builder, date)
             IN  IF r.raised
                 THEN /\ aoiOut' = [call |-> "eventOccurred", out |-> r]
                      /\ UNCHANGED builder
                 ELSE /\ builder' = r.value
                      /\ UNCHANGED aoiOut
    /\ UNCHANGED aoiRest

\* AoiHandler.result: intervals=self.__builder.build_list()
AoiResult ==
    /\ aoiOut.call = "none"
    /\ LET r == build_list(builder)
       IN  /\ builder' = r.self
           /\ aoiOut' = [call |-> "result", out |-> r.out]
    /\ UNCHANGED <<aoiEvents, aoiRest>>

NextAoiHandler == AoiEventOccurred \/ AoiResult

SpecAoiHandler == InitAoiHandler /\ [][NextAoiHandler]_vars

\* The events alternate entry and exit.
AoiAlternates ==
    \A n \in 1..(Len(aoiEvents) - 1) : aoiEvents[n].increasing # aoiEvents[n + 1].increasing

\* The dates of the access intervals that pairing the delivered events gives: the
\* horizon start before an opening exit, the horizon stop after a closing entry.
AoiPairedDates ==
    LET times == [n \in 1..Len(aoiEvents) |-> aoiEvents[n].date]
        opened == IF aoiEvents # <<>> /\ aoiEvents[1].increasing THEN <<0>> \o times ELSE times
    IN  IF aoiEvents # <<>> /\ ~aoiEvents[Len(aoiEvents)].increasing
        THEN Append(opened, EvMaxT)
        ELSE opened

\* C19: after events delivered in increasing time order that alternate entry and exit,
\* the handler's result is the interval list that pairs each entry with the next exit,
\* an opening exit with the horizon start and a closing entry with the horizon stop;
\* with no event at all the result is the empty list.
C19_EventsPaired ==
    (aoiOut.call = "result" /\ AoiAlternates) =>
        /\ ~aoiOut.out.raised
        /\ aoiOut.out.value = AoiPairedDates

(***************************************************************************)
(* models/detectors.py: IntervalBuilderEventHandler, the handler of the    *)
(* boresight sun elevation detector.  The handler is the record of its two *)
(* private lists.                                                          *)
(***************************************************************************)
\* IntervalBuilderEventHandler.__init__
IntervalBuilderEventHandler == [starts |-> <<>>, stops |-> <<>>]

\* IntervalBuilderEventHandler.eventOccurred: increasing g appends to the starts,
\* decreasing g to the stops.
ib_eventOccurred(self, date, increasing) ==
    IF increasing THEN [self EXCEPT !.starts = Append(self.starts, date)]
    ELSE [self EXCEPT !.stops = Append(self.stops, date)]

\* zip(starts, stops) as DateInterval values: as long as the shorter of the two.
zip_intervals(starts, stops) ==
    LET n == IF Len(starts) < Len(stops) THEN Len(starts) ELSE Len(stops)
    IN  [k \in 1..n |-> DateInterval(starts[k], stops[k])]

\* IntervalBuilderEventHandler.get_results(run_interval): the handler after the call
\* and the interval list returned.
get_results(self, run_interval) ==
    IF self.starts # <<>> /\ self.stops # <<>>
    THEN LET starts == IF self.starts[1] > self.stops[1]
                       THEN <<run_interval.start>> \o self.starts ELSE self.starts
             stops == IF starts[Len(starts)] > self.stops[Len(self.stops)]
                      THEN Append(self.stops, run_interval.stop) ELSE self.stops
         IN  [self |-> [starts |-> starts, stops |-> stops],
              out |-> DateIntervalList(zip_intervals(starts, stops), TRUE)]
    ELSE IF self.starts # <<>>
    THEN [self |-> self,
          out |-> DateIntervalList(<<DateInterval(self.starts[1], run_interval.stop)>>, TRUE)]
    ELSE IF self.stops # <<>>
    THEN [self |-> self,
          out |-> DateIntervalList(<<DateInterval(run_interval.start, self.stops[Len(self.stops)])>>, TRUE)]
    ELSE [self |-> self, out |-> DateIntervalList(<<run_interval>>, TRUE)]

\* Step 5 of the preprocessing: with a solar constraint active, the interval list of an
\* AOI is intersected with the enabled-intervals list of its sensor.
intersect_enabled(access, enabled) == list_intersection(access, enabled)

\* The access lists of an AOI in the model: none, or one interval inside the horizon.
SunAccessLists ==
    {<<>>} \cup {l \in {<<a, b>> : a \in 0..SunMaxT, b \in 0..SunMaxT} : l[1] < l[2]}

\* At the horizon start the constraint is satisfied (g >= 0) or not.
InitSunHandler ==
    /\ MainIdle /\ OvIdle /\ DiIdle /\ ScIdle /\ AoiIdle /\ PreIdle
    /\ sunHandler = IntervalBuilderEventHandler
    /\ \E satisfied \in BOOLEAN : sunG = [ever |-> satisfied, now |-> satisfied, last |-> 0]
    /\ sunOut = [call |-> "none"]

\* The detector reports a crossing of g = elevation - min_elevation through zero at a
\* date inside the horizon, later than the events before: increasing when the
\* constraint becomes satisfied, decreasing when it stops being satisfied.
SunEventOccurred ==
    /\ sunOut.call = "none"
    /\ \E date \in (sunG.last + 1)..(SunMaxT - 1) :
          /\ sunHandler' = ib_eventOccurred(sunHandler, date, ~sunG.now)
          /\ sunG' = [ever |-> TRUE, now |-> ~sunG.now, last |-> date]
    /\ UNCHANGED <<sunOut, sunRest>>

\* After the propagation over the horizon [0, SunMaxT]: the enabled list of the sensor
\* is read from the handler and the access list of an AOI is intersected with it.
SunGetResults ==
    /\ sunOut.call = "none"
    /\ \E access \in SunAccessLists :
          LET r == get_results(sunHandler, DateInterval(0, SunMaxT))
          IN  /\ sunHandler' = r.self
              /\ sunOut' = [call |-> "get_results", enabled |-> r.out, access |-> access,
                            aoi |-> intersect_enabled(access, r.out)]
    /\ UNCHANGED <<sunG, sunRest>>

NextSunHandler == SunEventOccurred \/ SunGetResults

SpecSunHandler == InitSunHandler /\ [][NextSunHandler]_vars

\* C20: when the sun elevation constraint is never satisfied during the horizon (the
\* detector reports no crossing event), the enabled-interval list of the sensor is
\* empty and every AOI of the sensor has zero access intervals after the intersection
\* with the enabled list.
C20_NeverSatisfiedNoAccess ==
    (sunOut.call = "get_results" /\ ~sunG.ever) =>
        /\ sunOut.enabled = <<>>
        /\ sunOut.aoi = <<>>

(***************************************************************************)
(* preprocessor/preprocessor.py: Preprocessor.__call__, from the loop that *)
(* registers the AOI detectors to the PreprocessingResult.  An AOI is      *)
(* [id, zones_fail]: whether building its zones raises.  A handler is its  *)
(* SafeListBuilder and whether detectors were registered for it.           *)
(***************************************************************************)
\* The loop over self.aois: the handler is appended before the zones are built; an
\* exception of createZones or of the detector's construction is logged as a warning
\* and the AOI is left without detectors.
register_handlers(aois, interval) ==
    [n \in 1..Len(aois) |-> [builder |-> SafeListBuilder(interval.start, interval.stop),
                             registered |-> ~aois[n].zones_fail]]

\* tuple(h.result() for h in handlers): the first result() that raises ends the call;
\* the builders of the handlers reached have gone through build_list.
RECURSIVE collect_results(_, _, _, _)
collect_results(aois, handlers, n, done) ==
    IF n > Len(handlers) THEN [handlers |-> handlers, out |-> Returned(done)]
    ELSE LET r == build_list(handlers[n].builder)
             hs == [handlers EXCEPT ![n].builder = r.self]
         IN  IF r.out.raised THEN [handlers |-> hs, out |-> r.out]
             ELSE collect_results(aois, hs, n + 1,
                      Append(done, [id |-> aois[n].id, sat |-> "sat1", sensor |-> "s1",
                                    intervals |-> r.out.value]))

InitPreprocess ==
    /\ MainIdle /\ OvIdle /\ DiIdle /\ ScIdle /\ AoiIdle /\ SunIdle /\ RnIdle
    /\ ppAois \in {s \in [1..PpNumAois -> [id : 1..PpNumAois, zones_fail : BOOLEAN]] :
                      \A n \in 1..PpNumAois : s[n].id = n}
    /\ ppHandlers = <<>>
    /\ ppOut = [call |-> "none"]

\* Preprocessor.__call__ up to the propagation over the horizon [0, PpMaxT].
PpRegister ==
    /\ ppOut.call = "none"
    /\ ppHandlers' = register_handlers(ppAois, DateInterval(0, PpMaxT))
    /\ ppOut' = [call |-> "propagate", date |-> 0]
    /\ UNCHANGED <<ppAois, ppRest>>

\* generator.propagate(self.interval, ...): a registered detector reports an event to
\* its handler, at a later date than the events before, an exit only while inside the
\* AOI and an entry only while outside.
PpEvent ==
    /\ ppOut.call = "propagate"
    /\ \E n \in 1..Len(ppHandlers), date \in (ppOut.date + 1)..(PpMaxT - 1), increasing \in BOOLEAN :
          /\ ppHandlers[n].registered
          /\ LET r == IF increasing THEN add_stop(ppHandlers[n].builder, date)
                      ELSE add_start(ppHandlers[n].builder, date)
             IN  /\ ~r.raised
                 /\ ppHandlers' = [ppHandlers EXCEPT ![n].builder = r.value]
          /\ ppOut' = [call |-> "propagate", date |-> date]
    /\ UNCHANGED <<ppAois, ppRest>>

\* The end of Preprocessor.__call__, and init_access_report on the AOIs of the result
\* when there is one.
PpResult ==
    /\ ppOut.call = "propagate"
    /\ LET r == collect_results(ppAois, ppHandlers, 1, <<>>)
       IN  /\ ppHandlers' = r.handlers
           /\ ppOut' = [call |-> "result", out |-> r.out,
                        report |-> IF r.out.raised THEN <<>> ELSE init_access_report(r.out.value)]
    /\ UNCHANGED <<ppAois, ppRest>>

NextPreprocess == PpRegister \/ PpEvent \/ PpResult

SpecPreprocess == InitPreprocess /\ [][NextPreprocess]_vars

\* C21: when building the zones of an AOI fails, the preprocessing still ends with a
\* result that holds a PreprocessedAoi for every AOI, the failing AOI's with an empty
\* interval list, and the access report made of it has a NO_ACCESS row for the failing
\* AOI.
C21_ZoneFailureNoAccess ==
    (ppOut.call = "result" /\ \E n \in 1..Len(ppAois) : ppAois[n].zones_fail) =>
        /\ ~ppOut.out.raised
        /\ Len(ppOut.out.value) = Len(ppAois)
        /\ \A n \in 1..Len(ppAois) :
              ppAois[n].zones_fail =>
                  /\ ppOut.out.value[n].id = ppAois[n].id
                  /\ ppOut.out.value[n].intervals = <<>>
                  /\ \E i \in 1..Len(ppOut.report) :
                        /\ ppOut.report[i].aoi_id = ppAois[n].id
                        /\ ppOut.report[i].result = NO_ACCESS

(***************************************************************************)
(* preprocessor/runner.py: Worker and run_preprocessing.  A preprocessor   *)
(* is [raises, last_result]: whether its call raises, and the result of    *)
(* its last completed call, [of, fresh] with fresh = FALSE for a result of *)
(* a call made before this run_preprocessing.                              *)
(***************************************************************************)
\* Python's None, where a PreprocessingResult is expected.
NoResult == [of |-> 0, fresh |-> FALSE]

\* Preprocessor.__call__ as run_preprocessing sees it: it raises, or it stores its
\* result in last_result and returns it.
preprocessor_call(pre, n) ==
    IF pre[n].raises THEN Raised("Exception")
    ELSE Returned([pre EXCEPT ![n].last_result = [of |-> n, fresh |-> TRUE]])

\* Worker.__call__: an exception of the callable is logged and swallowed.
worker_call(pre, n) ==
    LET r == preprocessor_call(pre, n)
    IN  IF r.raised THEN pre ELSE r.value

\* shouldThread: args.threading, switched off for fewer than two preprocessors.
should_thread(threading, preprocessors) ==
    IF threading /\ Len(preprocessors) < 2 THEN FALSE ELSE threading

\* return [p.last_result for p in preprocessors]
last_results(pre) == [n \in 1..Len(pre) |-> pre[n].last_result]

InitRunner ==
    /\ MainIdle /\ OvIdle /\ DiIdle /\ ScIdle /\ AoiIdle /\ SunIdle /\ PpIdle
    /\ rnPre \in UNION {[1..n -> [raises : BOOLEAN,
                                  last_result : {NoResult} \cup [of : 1..n, fresh : {FALSE}]]] :
                           n \in 1..RnNum}
    /\ \A n \in 1..Len(rnPre) : rnPre[n].last_result.of \in {0, n}
    /\ rnThreads = [n \in 1..Len(rnPre) |-> "new"]
    /\ \E threading \in BOOLEAN :
          rnMain = [pc |-> IF should_thread(threading, rnPre) THEN "start" ELSE "call", i |-> 1]
    /\ rnOut = [call |-> "none"]

\* The first loop of the threaded branch: Thread(target=Worker(vm, p, args.test)).start()
RnStart ==
    /\ rnMain.pc = "start"
    /\ rnThreads' = [rnThreads EXCEPT ![rnMain.i] = "started"]
    /\ rnMain' = IF rnMain.i < Len(rnPre) THEN [rnMain EXCEPT !.i = @ + 1] ELSE [pc |-> "join", i |-> 1]
    /\ UNCHANGED <<rnPre, rnOut, rnRest>>

\* A started worker thread runs Worker.__call__ and ends.
RnWorker ==
    /\ \E n \in 1..Len(rnThreads) :
          /\ rnThreads[n] = "started"
          /\ rnPre' = worker_call(rnPre, n)
          /\ rnThreads' = [rnThreads EXCEPT ![n] = "ended"]
    /\ UNCHANGED <<rnMain, rnOut, rnRest>>

\* The second loop of the threaded branch: thread.join() returns once the thread ended.
RnJoin ==
    /\ rnMain.pc = "join"
    /\ rnThreads[rnMain.i] = "ended"
    /\ rnMain' = IF rnMain.i < Len(rnPre) THEN [rnMain EXCEPT !.i = @ + 1] ELSE [pc |-> "return", i |-> 1]
    /\ UNCHANGED <<rnPre, rnThreads, rnOut, rnRest>>

\* The loop of the other branch: p(args.test) on the caller's thread; an exception of
\* p leaves run_preprocessing.
RnCall ==
    /\ rnMain.pc = "call"
    /\ LET r == preprocessor_call(rnPre, rnMain.i)
       IN  IF r.raised
           THEN /\ rnOut' = [call |-> "run_preprocessing", out |-> r]
                /\ rnMain' = [rnMain EXCEPT !.pc = "raised"]
                /\ UNCHANGED rnPre
           ELSE /\ rnPre' = r.value
                /\ rnMain' = IF rnMain.i < Len(rnPre) THEN [rnMain EXCEPT !.i = @ + 1]
                             ELSE [pc |-> "return", i |-> 1]
                /\ UNCHANGED rnOut
    /\ UNCHANGED <<rnThreads, rnRest>>

\* return [p.last_result for p in preprocessors]
RnReturn ==
    /\ rnMain.pc = "return"
    /\ rnOut' = [call |-> "run_preprocessing", out |-> Returned(last_results(rnPre))]
    /\ rnMain' = [rnMain EXCEPT !.pc = "returned"]
    /\ UNCHANGED <<rnPre, rnThreads, rnRest>>

NextRunner == RnStart \/ RnWorker \/ RnJoin \/ RnCall \/ RnReturn

SpecRunner == InitRunner /\ [][NextRunner]_vars

\* C22: when the preprocessing of one satellite raises, run_preprocessing still ends
\* by returning, and the result of every preprocessor that does not raise is in the
\* list returned, made during this call.
C22_OthersComplete ==
    (rnOut.call = "run_preprocessing" /\ \E n \in 1..Len(rnPre) : rnPre[n].raises) =>
        /\ ~rnOut.out.raised
        /\ \A n \in 1..Len(rnPre) :
              ~rnPre[n].raises => rnOut.out.value[n] = [of |-> n, fresh |-> TRUE]

\* C29: run_preprocessing returns one entry per preprocessor, in input order, each the
\* result this preprocessor produced during this call, never None and never the
\* result of an earlier call, also when a preprocessor raised.
C29_OneFreshResultEach ==
    rnOut.call = "run_preprocessing" =>
        /\ ~rnOut.out.raised
        /\ Len(rnOut.out.value) = Len(rnPre)
        /\ \A n \in 1..Len(rnPre) : rnOut.out.value[n] = [of |-> n, fresh |-> TRUE]

(***************************************************************************)
(* scheduler/score.py                                                      *)
(***************************************************************************)
\* score_aois: each AOI paired with score_func(aoi); an AOI of the model carries the
\* value its score function returns.
score_aois(aois) == [k \in 1..Len(aois) |-> [score |-> aois[k].score, aoi |-> aois[k]]]

\* Mutant of score_kept: a score of 0 is kept.
score_kept_mut(value) == value.score >= 0

\* The filter of score_and_sort_aois: value.score > 0.
score_kept(value) == value.score > 0

\* The sort key (-x.score, x.aoi.id) and Python's tuple comparison of two keys.
sort_key(x) == <<0 - x.score, x.aoi.id>>
key_lt(k1, k2) == k1[1] < k2[1] \/ (k1[1] = k2[1] /\ k1[2] < k2[2])

\* list.sort(key=...): stable, an element moves before those with a greater key only.
RECURSIVE KeyInsert(_, _)
KeyInsert(sorted, x) ==
    IF sorted = <<>> THEN <<x>>
    ELSE IF key_lt(sort_key(x), sort_key(sorted[Len(sorted)]))
         THEN Append(KeyInsert(SubSeq(sorted, 1, Len(sorted) - 1), x), sorted[Len(sorted)])
         ELSE Append(sorted, x)

RECURSIVE sort_by_key(_)
sort_by_key(s) ==
    IF s = <<>> THEN <<>>
    ELSE KeyInsert(sort_by_key(SubSeq(s, 1, Len(s) - 1)), s[Len(s)])

\* score_and_sort_aois
score_and_sort_aois(aois) == sort_by_key(SelectSeq(score_aois(aois), score_kept))

\* The AOIs given to score_and_sort_aois; n is the AOI's place in the input and tells
\* apart two AOIs with the same id and score (one AOI seen by two payloads).
ScoreInputs ==
    UNION {{s \in [1..n -> [id : 1..ScoreMaxId, score : -1..ScoreMax, n : 1..n]] :
                \A k \in 1..n : s[k].n = k} : n \in 0..ScoreMaxAois}

InitScore ==
    /\ scoreIn \in ScoreInputs
    /\ scoreOut = <<>>
    /\ scoreRuns = 0
    /\ AlgIdle /\ RepIdle /\ SchedIdle /\ UnitIdle

ScoreAndSort ==
    /\ scoreRuns < 2
    /\ scoreOut' = score_and_sort_aois(scoreIn)
    /\ scoreRuns' = scoreRuns + 1
    /\ UNCHANGED <<scoreIn, algVars, repVars, schedVars, unitVars>>

NextScore == ScoreAndSort

SpecScore == InitScore /\ [][NextScore]_vars

\* C7: score_and_sort_aois returns exactly the input AOIs with a strictly positive
\* score, ordered by descending score, ties broken by ascending AOI id.
C7_ScoreOrder ==
    scoreRuns > 0 =>
        /\ {scoreOut[k].aoi : k \in 1..Len(scoreOut)} = {scoreIn[k] : k \in {i \in 1..Len(scoreIn) : scoreIn[i].score > 0}}
        /\ Len(scoreOut) = Cardinality({i \in 1..Len(scoreIn) : scoreIn[i].score > 0})
        /\ \A k \in 1..Len(scoreOut) : scoreOut[k].score = scoreOut[k].aoi.score
        /\ \A i \in 1..Len(scoreOut) : \A j \in (i + 1)..Len(scoreOut) :
              \/ scoreOut[i].score > scoreOut[j].score
              \/ (scoreOut[i].score = scoreOut[j].score /\ scoreOut[i].aoi.id <= scoreOut[j].aoi.id)

\* C7 witness: a call returned two AOIs of equal score in id order after dropping an
\* AOI of score <= 0 and moving a higher score ahead of its input place.
C7_Witness ==
    /\ scoreRuns > 0
    /\ Len(scoreIn) = 3 /\ Len(scoreOut) = 2
    /\ scoreOut[1].score = scoreOut[2].score
    /\ scoreOut[1].aoi.id < scoreOut[2].aoi.id
    /\ scoreOut[1].aoi.n > scoreOut[2].aoi.n

(***************************************************************************)
(* The access report as a state machine: a report made by                  *)
(* init_access_report, then any calls of record_result and record_bonusing.*)
(***************************************************************************)
SatIds == {"sat1"}
SensorIds == {"s1", "s2"}

\* Every canonical list of positive-length intervals over the dates 0..maxT.
CanonicalLists(maxT) ==
    UNION {{l \in [1..(2 * n) -> 0..maxT] : \A k \in 1..(2 * n - 1) : l[k] < l[k + 1]} :
              n \in 0..((maxT + 1) \div 2)}

RepIntervals == {i \in [start : 0..RepMaxT, stop : 0..RepMaxT] : i.start < i.stop}

\* The PreprocessedAoi sequences a report is made from: one entry per AOI and payload.
RepAoiIds == {1, 2}
RepPaois ==
    UNION {{s \in [1..n -> [id : RepAoiIds, score : {1}, sat : SatIds, sensor : SensorIds,
                             intervals : CanonicalLists(RepMaxT)]] :
                \A i \in 1..n : \A j \in (i + 1)..n :
                    \/ s[i].sensor = "s1" /\ s[j].sensor = "s2"
                    \/ s[i].sensor = s[j].sensor /\ s[i].id < s[j].id} : n \in 1..2}

\* The codes the calls write: those the scheduler's calls of record_result write.
RepResults == {SCHEDULED, EXCEEDED_PAYLOAD_DUTY_CYCLE, SOLVER_INFEASIBLE_SOLUTION}

InitReport ==
    /\ \E aois \in RepPaois : report = init_access_report(aois)
    /\ AlgIdle /\ ScoreIdle /\ SchedIdle /\ UnitIdle

\* One call of record_result with overwrite=False: with an interval (matched exactly
\* or by overlap), or with a start or a stop, or with none of them; with no id, or
\* with the satellite's, or with the satellite's and the sensor's.
RecordResult ==
    \E aoi_id \in RepAoiIds, result \in RepResults, satellite_id \in SatIds \cup {NoId},
       sensor_id \in SensorIds \cup {NoId}, interval_overlap \in BOOLEAN,
       start \in (0..RepMaxT) \cup {NaT}, stop \in (0..RepMaxT) \cup {NaT},
       ivl \in RepIntervals \cup {None} :
        /\ ivl # None => start = NaT /\ stop = NaT
        /\ ivl = None => ~interval_overlap
        /\ start = NaT \/ stop = NaT
        /\ satellite_id = NoId => sensor_id = NoId
        /\ report' = record_result(report, aoi_id, result, satellite_id, sensor_id, start, stop,
                                   ivl, FALSE, interval_overlap)
        /\ UNCHANGED <<algVars, scoreVars, schedVars, unitVars>>

RecordBonusing ==
    \E satellite_id \in SatIds, sensor_id \in SensorIds \cup {NoId},
       intervals \in CanonicalLists(RepMaxT) :
        /\ report' = record_bonusing(report, satellite_id, intervals, sensor_id)
        /\ UNCHANGED <<algVars, scoreVars, schedVars, unitVars>>

NextReport == RecordResult \/ RecordBonusing

SpecReport == InitReport /\ [][NextReport]_vars

\* C5: no call of record_result with overwrite=False and no call of record_bonusing
\* raises the result code of a row: a row keeps its code or takes a strictly lower
\* one, and no row is added or removed.
C5_CodesOnlyLower ==
    [][/\ Len(report') = Len(report)
       /\ \A i \in 1..Len(report) : report'[i].result <= report[i].result]_vars

\* C5 witness: a call of record_result lowered one row made with NO_DATA to SCHEDULED
\* and a call of record_bonusing lowered another to ALREADY_SCHEDULED.
C5_Witness ==
    /\ \E i \in 1..Len(report) : report[i].result = SCHEDULED
    /\ \E i \in 1..Len(report) : report[i].result = ALREADY_SCHEDULED

(***************************************************************************)
(* scheduler/pushbroom.py: execute as a state machine, from the            *)
(* preprocessing results to the schedules.                                 *)
(***************************************************************************)
Keys == {generate_ids[i] : i \in 1..Len(generate_ids)}

\* The rev-boundary events of a run: the horizon starts on one, and one follows every
\* RevPeriod ticks.
RunEvents == {{e \in 1..(MaxT - 1) : e % RevPeriod = 0}}

\* The preprocessing results: AOI n has id n and score n, the first is seen by sensor
\* s1, and the access intervals are canonical lists of at most MaxIvls intervals of at
\* most MaxAccess ticks in the horizon.
RunPaois ==
    {s \in [1..NumAois -> [id : 1..NumAois, score : 1..NumAois, sat : SatIds, sensor : SensorIds,
                           intervals : {l \in CanonicalLists(MaxT) :
                                           /\ dil_len(l) <= MaxIvls
                                           /\ \A n \in 1..dil_len(l) : l[2 * n] - l[2 * n - 1] <= MaxAccess}]] :
        /\ \A n \in 1..NumAois : s[n].id = n /\ s[n].score = n
        /\ s[1].sensor = "s1"}

\* The configurations: a batch size of config.extensions (0: none; one of NumAois or
\* more acts as none does), and a duty cycle that gives every rev a whole budget (the
\* solution values of the model are whole).
RunConfigs ==
    {c \in [events : RunEvents, duty_cycle : 0..DutyDen, batch_size : 0..(NumAois - 1)] :
        \A r \in 1..Len(construct_rev_intervals(c.events, DateInterval(0, MaxT))) :
            (c.duty_cycle * (construct_rev_intervals(c.events, DateInterval(0, MaxT))[r].stop -
                             construct_rev_intervals(c.events, DateInterval(0, MaxT))[r].start)) % DutyDen = 0}

\* platform.model.construct_rev_intervals(bounding_interval=(getMinDate(), getMaxDate()))
revs == construct_rev_intervals(config.events, DateInterval(0, MaxT))

NoBatch == [batch |-> 0, result |-> "none", aois |-> <<>>]

Init ==
    /\ pc = "start"
    /\ config \in RunConfigs
    /\ preprocessed \in RunPaois
    /\ report = <<>>
    /\ scored_aois = <<>>
    /\ batch_size = 0
    /\ batch_start = 0
    /\ payload_intervals = [k \in Keys |-> <<>>]
    /\ duration_limit = [k \in Keys |-> <<>>]
    /\ solver_aois = [k \in Keys |-> <<>>]
    /\ last = [k \in Keys |-> NoBatch]
    /\ schedules = <<>>
    /\ AlgIdle /\ ScoreIdle /\ UnitIdle

\* execute up to the batch loop: the report, the scored AOIs, the batch size (that of
\* config.extensions["pushbroom"], else the number of scored AOIs) and the limits.
\* range(0, len(scored_aois), 0) raises ValueError.
Prepare ==
    /\ pc = "start"
    /\ report' = init_access_report(preprocessed)
    /\ scored_aois' = score_and_sort_aois(filter_aois_no_access(preprocessed))
    /\ batch_size' = IF config.batch_size # 0 THEN config.batch_size ELSE Len(scored_aois')
    /\ duration_limit' = build_duty_cycle_limits(revs, config.duty_cycle, Keys)
    /\ pc' = IF batch_size' = 0 THEN "crashed" ELSE "batches"
    /\ UNCHANGED <<config, preprocessed, batch_start, payload_intervals, solver_aois, last, schedules,
                   algVars, scoreVars, unitVars>>

\* One turn of the batch loop: BatchData(...) and schedule_batch on
\* scored_aois[batch_start:batch_stop].
ScheduleBatch ==
    /\ pc = "batches"
    /\ batch_start < Len(scored_aois)
    /\ \E st \in schedule_batch([report |-> report, payload_intervals |-> payload_intervals,
                                 duration_limit |-> duration_limit, solver_aois |-> solver_aois,
                                 last |-> last, crashed |-> FALSE],
                                generate_ids,
                                SubSeq(scored_aois, batch_start + 1,
                                       IF batch_start + batch_size < Len(scored_aois)
                                       THEN batch_start + batch_size ELSE Len(scored_aois)),
                                1 + (batch_start \div batch_size), revs) :
          IF st.crashed
          THEN /\ pc' = "crashed"
               /\ UNCHANGED <<report, payload_intervals, duration_limit, solver_aois, last, batch_start>>
          ELSE /\ report' = st.report
               /\ payload_intervals' = st.payload_intervals
               /\ duration_limit' = st.duration_limit
               /\ solver_aois' = st.solver_aois
               /\ last' = st.last
               /\ batch_start' = batch_start + batch_size
               /\ pc' = pc
    /\ UNCHANGED <<config, preprocessed, scored_aois, batch_size, schedules, algVars, scoreVars, unitVars>>

\* execute after the batch loop: the bonusing pass and the schedules.
Finalize ==
    /\ pc = "batches"
    /\ batch_start >= Len(scored_aois)
    /\ report' = bonus_all(report, generate_ids, payload_intervals)
    /\ schedules' = [k \in Keys |-> Schedule(k, payload_intervals[k])]
    /\ pc' = "done"
    /\ UNCHANGED <<config, preprocessed, scored_aois, batch_size, batch_start, payload_intervals,
                   duration_limit, solver_aois, last, algVars, scoreVars, unitVars>>

Next == Prepare \/ ScheduleBatch \/ Finalize

Spec == Init /\ [][Next]_vars

(***************************************************************************)
(* Properties of a scheduling run.                                         *)
(***************************************************************************)
\* The unit cells [t, t+1) of the horizon that the intervals of a list cover.
RunCells(l) == {t \in 0..(MaxT - 1) : \E n \in 1..dil_len(l) : l[2 * n - 1] <= t /\ t < l[2 * n]}

\* The cells in some access interval that preprocessing produced for a key.
AccessCells(k) ==
    UNION {RunCells(preprocessed[n].intervals) :
              n \in {n \in 1..Len(preprocessed) : key_type(preprocessed[n]) = k}}

\* Two intervals of a list share an instant.
Overlapping(l) ==
    \E i \in 1..dil_len(l) : \E j \in (i + 1)..dil_len(l) :
        l[2 * i - 1] < l[2 * j] /\ l[2 * j - 1] < l[2 * i]

C2_DutyCyclePerRev ==
    pc = "done" =>
        \A k \in Keys : \A r \in 1..Len(revs) :
            DutyDen * Cardinality(RunCells(payload_intervals[k]) \cap RunCells(<<revs[r].start, revs[r].stop>>))
                <= clamp_duty_cycle(config.duty_cycle) * (revs[r].stop - revs[r].start)

\* The four-way disjunction for the SolverIntervals i1 and i2 of a constraint.
FourWay(c, aois, batch, asg) ==
    LET s1 == value_of(aois, batch, <<>>, asg, VarStart(c.i1[1], c.i1[2]))
        e1 == value_of(aois, batch, <<>>, asg, VarStop(c.i1[1], c.i1[2]))
        s2 == value_of(aois, batch, <<>>, asg, VarStart(c.i2[1], c.i2[2]))
        e2 == value_of(aois, batch, <<>>, asg, VarStop(c.i2[1], c.i2[2]))
    IN  s1 >= e2 \/ s2 >= e1 \/ s1 = e1 \/ s2 = e2

\* C3: for two access intervals of different AOIs in the same solver whose original
\* ranges overlap, the constraint given to the solver admits exactly the assignments
\* in which one starts at or after the other stops or one of them is zero-length; so
\* it admits the first AOI's interval kept at positive length with the other collapsed.
C3_FourWayDisjunction ==
    \A k \in Keys :
        last[k].result \notin {"none"} =>
            \A c \in {c \in add_non_overlapping_constraints(last[k].aois) :
                         /\ last[k].aois[c.i1[1]].batch = last[k].batch
                         /\ last[k].aois[c.i2[1]].batch = last[k].batch} :
                \A asg \in Assignments(last[k].aois, new_ids(last[k].aois, last[k].batch), TRUE) :
                    Admits(c.added, last[k].aois, last[k].batch, <<>>, asg)
                        <=> FourWay(c, last[k].aois, last[k].batch, asg)

\* The budget a key has left at every date of its limits.
Budgets(limits) == [i \in 1..Len(limits) |-> di_get(limits, 2 * limits[i].date, 0)]

\* C4: when the solver of a key returns a status other than OPTIMAL or FEASIBLE, the
\* run goes on: every access interval of every AOI given to that solver in the batch
\* is recorded SOLVER_INFEASIBLE_SOLUTION unless its row holds a lower code, and the
\* committed payload intervals and the remaining budgets of the key are unchanged.
C4_SolverFailure ==
    [][\A k \in Keys :
          (last'[k] # last[k] /\ last'[k].result \in {"ABNORMAL", "INFEASIBLE"}) =>
              /\ pc' = "batches"
              /\ payload_intervals'[k] = payload_intervals[k]
              /\ Budgets(duration_limit'[k]) = Budgets(duration_limit[k])
              /\ \A a \in 1..Len(last'[k].aois) :
                    last'[k].aois[a].batch = last'[k].batch =>
                        \A i \in 1..Len(report') :
                            (/\ report'[i].aoi_id = last'[k].aois[a].paoi.id
                             /\ report'[i].satellite_id = k.sat_id
                             /\ report'[i].sensor_id = k.payload_id)
                                => report'[i].result <= SOLVER_INFEASIBLE_SOLUTION]_vars

\* C6: after the bonusing pass, every row whose access interval overlaps a committed
\* interval of its key and is not SCHEDULED is ALREADY_SCHEDULED, and no row whose
\* access interval shares no instant with the committed intervals of its key is
\* ALREADY_SCHEDULED.
C6_Bonusing ==
    pc = "done" =>
        \A i \in 1..Len(report) :
            LET k == [sat_id |-> report[i].satellite_id, payload_id |-> report[i].sensor_id]
                shared == IF report[i].start = NaT THEN {}
                          ELSE RunCells(<<report[i].start, report[i].stop>>) \cap RunCells(payload_intervals[k])
            IN  /\ (shared # {} /\ report[i].result # SCHEDULED) => report[i].result = ALREADY_SCHEDULED
                /\ shared = {} => report[i].result # ALREADY_SCHEDULED

\* C18: the Schedule emitted for each key has exactly one activity per committed payload
\* interval of the key, each activity's interval is that committed interval, and the
\* activities are stored in ascending order of interval start.
C18_OneActivityPerInterval ==
    pc = "done" =>
        \A k \in Keys :
            LET acts == schedules[k].activities
                committed == dil_iter(payload_intervals[k])
            IN  /\ schedules[k].intervals = payload_intervals[k]
                /\ Len(acts) = Len(committed)
                /\ \A i \in 1..Len(committed) :
                      Cardinality({n \in 1..Len(acts) : acts[n].interval = committed[i]}) = 1
                /\ \A n \in 1..(Len(acts) - 1) : acts[n].interval.start < acts[n + 1].interval.start

\* C18 witness: a run ended with two committed intervals on one key and one on the
\* other.
C18_Witness ==
    /\ pc = "done"
    /\ \E k \in Keys : Len(schedules[k].activities) = 2
    /\ \E k \in Keys : Len(schedules[k].activities) = 1

\* The budget a lookup at a doubled date returns.
BudgetAt(limits, d2) == di_get(limits, d2, 0)

\* C25: before the first batch, for every key and every rev of the horizon, the lookup
\* of the key's remaining budget at any instant inside the rev returns the clamped
\* duty cycle times the duration of the rev; a horizon of a single rev has the single
\* budget duty cycle times the run duration.
C25_BudgetSeededPerRev ==
    (pc = "batches" /\ batch_start = 0) =>
        \A k \in Keys : \A r \in 1..Len(revs) :
            \A d2 \in (2 * revs[r].start)..(2 * revs[r].stop - 1) :
                BudgetAt(duration_limit[k], d2) =
                    clamp_duty_cycle(config.duty_cycle) * (revs[r].stop - revs[r].start)

\* C28: the SolverAois that add_final_constraints and solve use for a key in a batch
\* were all created in that batch.
C28_SolverOfThisBatchOnly ==
    \A k \in Keys :
        \A a \in 1..Len(last[k].aois) : last[k].aois[a].batch = last[k].batch

\* The doubled midpoint of an interval lies in a rev.
MidpointIn(ivl, rev) == 2 * rev.start <= ivl.start + ivl.stop /\ ivl.start + ivl.stop < 2 * rev.stop

\* The solutions read out of a list of SolverAois: the intervals scheduled.
ScheduledValues(aois) ==
    LET ids == interval_ids(aois, 1)
    IN  SelectSeq([n \in 1..Len(ids) |-> aois[ids[n][1]].intervals[ids[n][2]].value],
                  LAMBDA v : v # None)

\* C24: after a successful solve, every newly scheduled interval is debited with its
\* whole duration to the rev that contains its midpoint and to no other rev, also when
\* it crosses a rev boundary.  Stated for the first intervals committed for a key, by
\* a solver that holds SolverAois of its own batch only.
C24_MidpointDebit ==
    [][\A k \in Keys :
          (/\ last'[k] # last[k]
           /\ result_is_successful(last'[k].result)
           /\ payload_intervals[k] = <<>>
           /\ \A a \in 1..Len(last'[k].aois) : last'[k].aois[a].batch = last'[k].batch) =>
              \A r \in 1..Len(revs) :
                  LET new == ScheduledValues(solver_aois'[k])
                      mine == SelectSeq(new, LAMBDA ivl : MidpointIn(ivl, revs[r]))
                  IN  BudgetAt(duration_limit'[k], revs[r].start + revs[r].stop) =
                          BudgetAt(cleanup_limits(duration_limit[k]), revs[r].start + revs[r].stop) -
                              DutyDen * SeqSum([n \in 1..Len(mine) |-> mine[n].stop - mine[n].start])]_vars

C27_ZeroBudgetKey ==
    [][\A k \in Keys :
          (last'[k] # last[k] /\ all_zero(duration_limit[k])) =>
              /\ last'[k].result = "none"
              /\ payload_intervals'[k] = payload_intervals[k]
              /\ \A a \in 1..Len(last'[k].aois) :
                    last'[k].aois[a].batch = last'[k].batch =>
                        \A i \in 1..Len(report') :
                            (/\ report'[i].aoi_id = last'[k].aois[a].paoi.id
                             /\ report'[i].satellite_id = k.sat_id
                             /\ report'[i].sensor_id = k.payload_id)
                                => report'[i].result <= EXCEEDED_PAYLOAD_DUTY_CYCLE]_vars

\* The assignment that collapses every SolverInterval of the batch to zero length at its
\* lower bound.
Collapsed(aois, batch) ==
    LET ids == new_ids(aois, batch)
    IN  [n \in 1..Len(ids) |-> [start |-> aois[ids[n][1]].intervals[ids[n][2]].original.start,
                                stop |-> aois[ids[n][1]].intervals[ids[n][2]].original.start]]

DcAccessLists ==
    {l \in CanonicalLists(DcMaxT) :
        /\ dil_len(l) >= 1
        /\ \A n \in 1..dil_len(l) : l[2 * n] - l[2 * n - 1] = l[2] - l[1]}

DcRevs == construct_rev_intervals({}, DateInterval(0, DcMaxT))

DcKey == generate_ids[1]

InitDutyCase ==
    /\ AlgIdle /\ ScoreIdle /\ RepIdle /\ UnitIdle
    /\ pc = "start"
    /\ config \in [events : {{}}, duty_cycle : 0..DutyDen, batch_size : {0}]
    /\ preprocessed \in {<<[id |-> 1, score |-> 1, sat |-> "sat1", sensor |-> "s1", intervals |-> l]>> :
                            l \in DcAccessLists}
    /\ report = <<>>
    /\ scored_aois = <<>>
    /\ batch_size = 0
    /\ batch_start = 0
    /\ payload_intervals = [k \in Keys |-> <<>>]
    /\ duration_limit = [k \in Keys |-> <<>>]
    /\ solver_aois = [k \in Keys |-> <<>>]
    /\ last = [k \in Keys |-> NoBatch]
    /\ schedules = <<>>

\* execute up to the batch loop, and the only batch, over the rev [0, DcMaxT].
DcPrepare ==
    /\ pc = "start"
    /\ report' = init_access_report(preprocessed)
    /\ scored_aois' = score_and_sort_aois(filter_aois_no_access(preprocessed))
    /\ batch_size' = Len(scored_aois')
    /\ duration_limit' = build_duty_cycle_limits(DcRevs, config.duty_cycle, Keys)
    /\ pc' = "batches"
    /\ UNCHANGED <<config, preprocessed, batch_start, payload_intervals, solver_aois, last, schedules,
                   algVars, scoreVars, unitVars>>

DcScheduleBatch ==
    /\ pc = "batches"
    /\ batch_start < Len(scored_aois)
    /\ \E st \in schedule_batch([report |-> report, payload_intervals |-> payload_intervals,
                                 duration_limit |-> duration_limit, solver_aois |-> solver_aois,
                                 last |-> last, crashed |-> FALSE],
                                generate_ids, scored_aois, 1, DcRevs) :
          /\ report' = st.report
          /\ payload_intervals' = st.payload_intervals
          /\ duration_limit' = st.duration_limit
          /\ solver_aois' = st.solver_aois
          /\ last' = st.last
          /\ batch_start' = batch_start + batch_size
          /\ pc' = "done"
    /\ UNCHANGED <<config, preprocessed, scored_aois, batch_size, schedules, algVars, scoreVars, unitVars>>

NextDutyCase == DcPrepare \/ DcScheduleBatch

SpecDutyCase == InitDutyCase /\ [][NextDutyCase]_vars

====
